---- MODULE Spec2Model ----
(***************************************************************************)
(* A model of doped's FermiSolver (src/doped/interface/fermi_solver.py):   *)
(* backend selection at construction, the backend guard of the private     *)
(* operations, linear interpolation of chemical potentials, and the scan   *)
(* entry points that map the equilibrium / pseudo-equilibrium solvers over *)
(* their inputs through joblib's Parallel.                                 *)
(*                                                                         *)
(* Python values that the code inspects with isinstance / "is None" are    *)
(* tagged records [t |-> "None" | "int" | "float" | "list" | "dict", ...].  *)
(* Floating-point numbers are modelled by a binary floating-point format   *)
(* with MantBits bits of mantissa (IEEE doubles have 53), rounding to      *)
(* nearest, ties to even; a number is an integer count of the smallest     *)
(* unit.                                                                   *)
(***************************************************************************)
EXTENDS Integers, Sequences, FiniteSets, TLC

VARIABLES
    lib,        \* environment: TRUE iff "from py_sc_fermi.dos import DOS" succeeds
    seed,       \* environment: string-hash order of the parent interpreter (a label order)
    solver,     \* the FermiSolver object (self), or NoSolver
    pc,         \* "idle": no call in progress; "running": a Parallel map is in flight;
                \* "returned": the last call has returned or raised
    call,       \* the entry point last called, with its arguments
    tasks,      \* the delayed units handed to Parallel, in input iteration order
    started,    \* number of units dispatched to workers so far
    inflight,   \* indices of the units being run by a worker
    slots,      \* index -> outcome of the finished unit
    all_data,   \* the list Parallel returned (one table per unit)
    ret,        \* the value the last call returned (a table, a list, or NoRet)
    err,        \* the exception the last call raised, or NoErr
    warns,      \* warnings emitted by the last call
    log,        \* collaborator calls made by the last call (of a scan: unit by unit)
    search      \* the local variables of a running (or finished) min_max_X, or NoSearch

vars == <<lib, seed, solver, pc, call, tasks, started, inflight, slots, all_data, ret, err, warns, log, search>>

-----------------------------------------------------------------------------
(* Bounds of the model *)

\* bits of mantissa of the modelled floating-point format
MantBits == 3
\* largest n_points tried
MaxPoints == 3
\* largest process count tried
MaxProcs == 2
\* largest number of iterations of the extremum search that are followed
MaxIter == 3

-----------------------------------------------------------------------------
(* Generic helpers *)

Range(s) == {s[i] : i \in DOMAIN s}

Abs(x) == IF x < 0 THEN -x ELSE x

RECURSIVE SumSet(_, _)
SumSet(f, S) ==
    IF S = {} THEN 0
    ELSE LET e == CHOOSE x \in S : TRUE IN f[e] + SumSet(f, S \ {e})

RECURSIVE Flatten(_)
Flatten(ss) == IF ss = <<>> THEN <<>> ELSE Head(ss) \o Flatten(Tail(ss))

RECURSIVE Factorial(_)
Factorial(n) == IF n <= 1 THEN 1 ELSE n * Factorial(n - 1)

RECURSIVE SetToSeq(_)
SetToSeq(S) ==
    IF S = {} THEN <<>>
    ELSE LET x == CHOOSE y \in S : TRUE IN <<x>> \o SetToSeq(S \ {x})

\* a record r extended (or overwritten) with column c |-> v
SetCol(r, c, v) == [k \in DOMAIN r \cup {c} |-> IF k = c THEN v ELSE r[k]]

-----------------------------------------------------------------------------
(* Python values *)

PyNone == [t |-> "None"]
PyInt(v) == [t |-> "int", v |-> v]
PyFloat(v) == [t |-> "float", v |-> v]
PyList(s) == [t |-> "list", items |-> s]
PyDict(d) == [t |-> "dict", v |-> d]
IsNone(x) == x.t = "None"

NoErr == [type |-> "none", msg |-> <<>>]
Raise(type, msg) == [type |-> type, msg |-> msg]
NoRet == [t |-> "None"]
NoSearch == [active |-> FALSE]

-----------------------------------------------------------------------------
(* Floating point: round-to-nearest-even with MantBits bits of mantissa *)

RECURSIVE ExpOf(_, _, _)
\* least j >= 0 with n < d * 2^(MantBits + j), for n >= 0, d > 0
ExpOf(n, d, j) == IF n < d * 2^(MantBits + j) THEN j ELSE ExpOf(n, d, j + 1)

\* the representable number nearest to the non-negative rational n / d
RoundPos(n, d) ==
    LET j    == ExpOf(n, d, 0)
        ulp  == 2^j
        m    == n \div (d * ulp)
        lo   == m * ulp
        hi   == lo + ulp
    IN  IF 2 * n < d * (lo + hi) THEN lo
        ELSE IF 2 * n > d * (lo + hi) THEN hi
        ELSE IF m % 2 = 0 THEN lo ELSE hi

\* the representable number nearest to the rational n / d (d > 0)
Round(n, d) == IF n < 0 THEN -RoundPos(-n, d) ELSE RoundPos(n, d)

FAdd(a, b) == Round(a + b, 1)
FSub(a, b) == Round(a - b, 1)
FMul(a, b) == Round(a * b, 1)
\* a / n for a float a and a non-zero integer n
FDiv(a, n) == IF n < 0 THEN Round(-a, -n) ELSE Round(a, n)

-----------------------------------------------------------------------------
(* Strings that the code inspects are sequences of characters *)

UpperToLower ==
    [c \in {"P", "Y", "S", "C", "F", "E", "R", "M", "I", "D", "O"} |->
        CASE c = "P" -> "p" [] c = "Y" -> "y" [] c = "S" -> "s" [] c = "C" -> "c"
          [] c = "F" -> "f" [] c = "E" -> "e" [] c = "R" -> "r" [] c = "M" -> "m"
          [] c = "I" -> "i" [] c = "D" -> "d" [] c = "O" -> "o"]

\* str.lower()
Lower(s) == [i \in DOMAIN s |-> IF s[i] \in DOMAIN UpperToLower THEN UpperToLower[s[i]] ELSE s[i]]

\* sub in s
Contains(sub, s) ==
    \E i \in 1..(Len(s) - Len(sub) + 1) : SubSeq(s, i, i + Len(sub) - 1) = sub

Chars_fermi == <<"f", "e", "r", "m", "i">>
Chars_doped == <<"d", "o", "p", "e", "d">>

\* the values tried for the backend argument of FermiSolver.__init__
BackendArgs ==
    { PyNone,
      [t |-> "str", v |-> <<"p", "y", "-", "s", "c", "-", "f", "e", "r", "m", "i">>],
      [t |-> "str", v |-> <<"P", "y", "-", "S", "C", "-", "F", "e", "r", "m", "i">>],
      [t |-> "str", v |-> <<"f", "e", "r", "m", "i">>],
      [t |-> "str", v |-> <<"d", "o", "p", "e", "d">>],
      [t |-> "str", v |-> <<"D", "o", "p", "e", "d">>],
      [t |-> "str", v |-> <<"v", "a", "s", "p">>] }

-----------------------------------------------------------------------------
(* The collaborators: the DefectThermodynamics object handed to the solver *)


\* chempots["limits_wrt_el_refs"]: three chemical-potential limits (vertices)
Limits ==
    [ L1 |-> [A |-> 0,  B |-> -2, C |-> -4],
      L2 |-> [A |-> -4, B |-> 0,  C |-> -2],
      L3 |-> [A |-> -2, B |-> -4, C |-> 0] ]

\* elemental reference energies
ElRefs == [A |-> -1, B |-> -2, C |-> -3]

\* chemical potentials in the doped format, as _parse_chempots returns them
DopedChempots(el_refs) == [t |-> "dict", limits_wrt_el_refs |-> Limits, elemental_refs |-> el_refs]

\* defect entry names are "<label>_<charge>", kept as their "_"-separated tokens
DefectEntries ==
    << [name |-> <<"B", "i", "+1">>, multiplicity |-> 2, degeneracy |-> 1],
       [name |-> <<"v", "A", "-1">>, multiplicity |-> 4, degeneracy |-> 2],
       [name |-> <<"v", "A", "0">>,  multiplicity |-> 4, degeneracy |-> 1] >>

\* int(charge_str), or "ValueError" when the token is not an integer literal
ParseInt(tok) ==
    CASE tok = "0" -> 0 [] tok = "+1" -> 1 [] tok = "1" -> 1 [] tok = "-1" -> -1
      [] tok = "+2" -> 2 [] tok = "-2" -> -2 [] OTHER -> "ValueError"

IsIntLiteral(tok) == tok \in {"0", "+1", "1", "-1", "+2", "-2"}

\* fermi_solver._get_label_and_charge: split at the last underscore
_get_label_and_charge(name) ==
    IF Len(name) <= 1 THEN <<name, 0>>
    ELSE LET label      == SubSeq(name, 1, Len(name) - 1)
             charge_str == name[Len(name)]
         IN  <<label, IF IsIntLiteral(charge_str) THEN ParseInt(charge_str) ELSE 0>>

\* the orders in which a set of the labels can be iterated (string hashing)
LabelSet == {_get_label_and_charge(DefectEntries[i].name)[1] : i \in DOMAIN DefectEntries}

LabelOrders == {s \in [1..Cardinality(LabelSet) -> LabelSet] : Range(s) = LabelSet}

\* cell volume of the bulk DOS calculation, and the ratios (in hundredths) of the
\* defect supercell volume to it that are tried
Volume == 2

VolumeRatios == {40, 100, 103, 104, 250}

\* doped.thermodynamics._parse_chempots: no chemical potentials in, none out; chemical
\* potentials that are in the doped format already keep their limits
_parse_chempots(chempots, el_refs) ==
    IF IsNone(chempots) THEN <<PyNone, el_refs>>
    ELSE IF "limits_wrt_el_refs" \in DOMAIN chempots
    THEN <<[chempots EXCEPT !.elemental_refs = el_refs], el_refs>>
    ELSE <<DopedChempots(el_refs), el_refs>>

\* doped.thermodynamics.get_rich_poor_limit_dict: "X-rich"/"X-poor" -> limit key
get_rich_poor_limit_dict(chempots) ==
    [ k \in {"A-rich", "A-poor", "B-rich", "B-poor", "C-rich", "C-poor"} |->
        CASE k = "A-rich" -> "L1" [] k = "A-poor" -> "L2"
          [] k = "B-rich" -> "L2" [] k = "B-poor" -> "L3"
          [] k = "C-rich" -> "L3" [] k = "C-poor" -> "L1" ]

-----------------------------------------------------------------------------
(* FermiSolver.__init__ *)

NoSolver == [constructed |-> FALSE]

\* an explicitly named but missing py-sc-fermi silently falls back to doped
MutSelectBackend_ExplicitFallsBack(backend, available) ==
    IF IsNone(backend) \/ Contains(Chars_fermi, Lower(backend.v))
    THEN [err |-> NoErr, backend |-> IF available THEN "py-sc-fermi" ELSE "doped"]
    ELSE IF Lower(backend.v) = Chars_doped
    THEN [err |-> NoErr, backend |-> "doped"]
    ELSE [err |-> Raise("ValueError", <<"Unrecognised backend: ", backend.v>>), backend |-> "none"]

\* lines 192-208: the backend tag, or the exception raised
SelectBackend(backend, available) ==
    IF IsNone(backend) \/ Contains(Chars_fermi, Lower(backend.v))
    THEN IF available
         THEN [err |-> NoErr, backend |-> "py-sc-fermi"]
         ELSE \* except ImportError: the handler evaluates backend.lower() again
              IF IsNone(backend)
              THEN [err |-> Raise("AttributeError",
                        <<"'NoneType' object has no attribute 'lower'">>), backend |-> "none"]
              ELSE IF Contains(Chars_fermi, Lower(backend.v))
              THEN [err |-> Raise("ImportError",
                        <<"py-sc-fermi is not installed, so only the ", "doped",
                          " FermiSolver backend is available.">>), backend |-> "none"]
              ELSE [err |-> NoErr, backend |-> "doped"]
    ELSE IF Contains(Chars_fermi, Lower(backend.v))
    THEN [err |-> NoErr, backend |-> "py-sc-fermi"]
    ELSE IF Lower(backend.v) = Chars_doped
    THEN [err |-> NoErr, backend |-> "doped"]
    ELSE [err |-> Raise("ValueError", <<"Unrecognised backend: ", backend.v>>), backend |-> "none"]

\* Python's round() of r/100: to the nearest integer, ties to the even one
PyRound100(r) ==
    LET q == r \div 100
        f == r % 100
    IN  IF f < 50 THEN q ELSE IF f > 50 THEN q + 1 ELSE IF q % 2 = 0 THEN q ELSE q + 1

\* np.isclose(ms, round(ms), atol=3e-2) for ms = r/100 (rtol*|round(ms)| < 0.01 here)
IsCloseToInteger(r) == Abs(r - 100 * PyRound100(r)) <= 3

NonIntegerRatioWarning == "non-integer volume ratio"

\* the whole constructor; the object exists only if no exception is raised
InitOutcome(backend, available, ratio, chempots, el_refs, dt_chempots, dt_el_refs) ==
    LET sel    == SelectBackend(backend, available)
        isdoped == sel.backend = "doped"
        ms     == IF isdoped THEN 1 ELSE PyRound100(ratio)
        w      == IF ~isdoped /\ ~IsCloseToInteger(ratio) THEN {NonIntegerRatioWarning} ELSE {}
        parsed == _parse_chempots(IF IsNone(chempots) THEN dt_chempots ELSE chempots,
                                  IF IsNone(el_refs) THEN dt_el_refs ELSE el_refs)
    IN  IF sel.err # NoErr
        THEN [err |-> sel.err, warns |-> {}, self |-> NoSolver]
        ELSE IF IsNone(parsed[1])
        THEN [err |-> Raise("ValueError",
                  <<"You must supply a chemical potentials dictionary or have them present in the DefectThermodynamics object.">>),
              warns |-> w, self |-> NoSolver]
        ELSE [err |-> NoErr, warns |-> w,
              self |-> [constructed |-> TRUE,
                        backend |-> sel.backend,
                        volume |-> Volume,
                        multiplicity_scaling |-> ms,
                        handles |-> ~isdoped,
                        chempots |-> parsed[1],
                        el_refs |-> parsed[2]]]

-----------------------------------------------------------------------------
(* Collaborator oracles.  The numerical root-finding of DefectThermodynamics *)
(* and of py-sc-fermi is opaque: each oracle is a fixed function of exactly  *)
(* the arguments the code passes to it.                                      *)

Weight == [A |-> 1, B |-> 3, C |-> 5]

WeightedSum(mu) == SumSet([e \in DOMAIN mu |-> Weight[e] * mu[e]], DOMAIN mu)

\* the dopant term of the charge-neutrality sum (None: no dopant)
DopantTerm(dopant) == IF IsNone(dopant) THEN 0 ELSE dopant.v

\* DefectThermodynamics.get_equilibrium_fermi_level(..., return_concs=True)
get_equilibrium_fermi_level(chempots, temperature, dopant) ==
    [ fermi_level |-> WeightedSum(chempots) + temperature \div 100 + 2 * DopantTerm(dopant),
      electrons   |-> temperature \div 100 + Abs(WeightedSum(chempots)) + Abs(DopantTerm(dopant) + 1),
      holes       |-> temperature \div 50 + Abs(WeightedSum(chempots)) + Abs(DopantTerm(dopant) - 1) ]

\* labels in order of first appearance among the (name-sorted) defect entries
RECURSIVE FirstLabels(_, _)
FirstLabels(i, seen) ==
    IF i > Len(DefectEntries) THEN <<>>
    ELSE LET l == _get_label_and_charge(DefectEntries[i].name)[1]
         IN  IF l \in seen THEN FirstLabels(i + 1, seen)
             ELSE <<l>> \o FirstLabels(i + 1, seen \cup {l})

EntriesOf(label) == {i \in DOMAIN DefectEntries : _get_label_and_charge(DefectEntries[i].name)[1] = label}

\* DefectThermodynamics.get_equilibrium_concentrations(per_charge=False): one row per defect
get_equilibrium_concentrations(chempots, fermi_level, temperature) ==
    LET labels == FirstLabels(1, {})
    IN  [ i \in DOMAIN labels |->
            ("Defect" :> labels[i]) @@
            ("Concentration (cm^-3)" :>
                SumSet([e \in EntriesOf(labels[i]) |->
                           DefectEntries[e].multiplicity * DefectEntries[e].degeneracy
                           + Abs(fermi_level) + temperature \div 100 + Abs(WeightedSum(chempots))],
                       EntriesOf(labels[i]))) ]

\* doped.thermodynamics._add_effective_dopant_concentration
_add_effective_dopant_concentration(concentrations, dopant) ==
    IF IsNone(dopant) THEN concentrations
    ELSE [i \in DOMAIN concentrations |-> SetCol(concentrations[i], "Dopant (cm^-3)", dopant.v)]

\* DefectThermodynamics.get_quenched_fermi_level_and_concentrations: one row per charge state
get_quenched_fermi_level_and_concentrations(chempots, annealing, quenched, dopant) ==
    LET eq == get_equilibrium_fermi_level(chempots, annealing, dopant)
        hi == get_equilibrium_concentrations(chempots, eq.fermi_level, annealing)
        total(label) == (CHOOSE r \in Range(hi) : r["Defect"] = label)["Concentration (cm^-3)"]
        ef == eq.fermi_level - (annealing - quenched) \div 100
    IN  [ fermi_level |-> ef,
          electrons   |-> quenched \div 100 + Abs(ef),
          holes       |-> quenched \div 50 + Abs(ef),
          concentrations |->
            [ i \in DOMAIN DefectEntries |->
                LET lc == _get_label_and_charge(DefectEntries[i].name)
                IN  ("Defect" :> lc[1]) @@ ("Charge" :> lc[2]) @@
                    ("Charge State Population" :> DefectEntries[i].degeneracy) @@
                    ("Concentration (cm^-3)" :> DefectEntries[i].degeneracy * (quenched \div 100)) @@
                    ("Formation Energy (eV)" :> WeightedSum(chempots) + lc[2] * ef) @@
                    ("Total Concentration (cm^-3)" :> total(lc[1])) ] ]

\* DefectThermodynamics.get_formation_energy(entry, chempots, fermi_level=0)
get_formation_energy(entry, chempots) ==
    entry.multiplicity + _get_label_and_charge(entry.name)[2] - WeightedSum(chempots)

-----------------------------------------------------------------------------
(* pandas helpers *)

DropColumns(df, cols) == [i \in DOMAIN df |-> [c \in DOMAIN df[i] \ cols |-> df[i][c]]]

SetColumn(df, c, v) == [i \in DOMAIN df |-> SetCol(df[i], c, v)]

RenameColumn(df, old, new) ==
    [i \in DOMAIN df |->
        [c \in (DOMAIN df[i] \ {old}) \cup (IF old \in DOMAIN df[i] THEN {new} ELSE {}) |->
            IF c = new /\ old \in DOMAIN df[i] THEN df[i][old] ELSE df[i][c]]]

RECURSIVE DropDuplicatesFrom(_, _)
DropDuplicatesFrom(df, seen) ==
    IF df = <<>> THEN <<>>
    ELSE IF Head(df) \in seen THEN DropDuplicatesFrom(Tail(df), seen)
    ELSE <<Head(df)>> \o DropDuplicatesFrom(Tail(df), seen \cup {Head(df)})

\* DataFrame.drop_duplicates(): keep the first of each group of equal rows
DropDuplicates(df) == DropDuplicatesFrom(df, {})

RECURSIVE SetColumns(_, _, _)
\* for key, value in d.items(): df[key] = value
SetColumns(df, d, keys) ==
    IF keys = {} THEN df
    ELSE LET k == CHOOSE x \in keys : TRUE
         IN  SetColumns(SetColumn(df, k, d[k]), d, keys \ {k})

-----------------------------------------------------------------------------
(* py-sc-fermi objects, as fermi_solver.py builds and reads them.           *)
(* A fixed concentration is a set: {} when not fixed, {c} when fixed to c.   *)

Name_Dopant == <<"Dopant">>
Name_FermiEnergy == <<"Fermi Energy">>
Name_n0 == <<"n0">>
Name_p0 == <<"p0">>

\* str(charge) / f"{int(charge)}"
IntStr(q) ==
    CASE q = 0 -> "0" [] q = 1 -> "1" [] q = -1 -> "-1" [] q = 2 -> "2" [] q = -2 -> "-2"

FixedTo(x) == CHOOSE c \in x.fixed_concentration : TRUE
IsFixed(x) == x.fixed_concentration # {}

\* DefectSystem.get_sc_fermi: the self-consistent Fermi energy
get_sc_fermi(ds) ==
    LET sp(i) == ds.defect_species[i]
        term(i) == IF IsFixed(sp(i)) THEN FixedTo(sp(i))
                   ELSE SumSet([q \in DOMAIN sp(i).charge_states |->
                                   q * (IF IsFixed(sp(i).charge_states[q])
                                        THEN FixedTo(sp(i).charge_states[q])
                                        ELSE sp(i).charge_states[q].energy)],
                               DOMAIN sp(i).charge_states)
    IN  ds.temperature \div 100
        + SumSet([i \in DOMAIN ds.defect_species |-> term(i)], DOMAIN ds.defect_species)

\* DefectChargeState.get_concentration of a charge state that is not fixed (internal units)
free_concentration(cs, nsites, e_fermi, temperature) ==
    Volume * (nsites * cs.degeneracy + Abs(cs.energy + cs.charge * e_fermi) + temperature \div 100)

\* DefectSpecies.charge_state_concentrations, in the system's internal units
charge_state_concentrations(sp, e_fermi, temperature) ==
    [ q \in DOMAIN sp.charge_states |->
        IF IsFixed(sp.charge_states[q]) THEN FixedTo(sp.charge_states[q])
        ELSE free_concentration(sp.charge_states[q], sp.nsites, e_fermi, temperature) ]

\* DefectSpecies.get_concentration: the fixed total if fixed, else the sum over charge states
get_concentration(sp, e_fermi, temperature) ==
    IF IsFixed(sp) THEN FixedTo(sp)
    ELSE LET cs == charge_state_concentrations(sp, e_fermi, temperature)
         IN  SumSet(cs, DOMAIN cs)

\* internal units (per cell) <-> cm^-3: c / 1e24 * volume and back
ToInternal(c, volume) == c * volume
ToPerVolume(x, volume) == x \div volume

\* DefectSystem.concentration_dict(decomposed): an ordered dict, as <<key, value>> pairs:
\* "Fermi Energy", "p0", "n0", then every species in the order of defect_species
concentration_dict(ds, decomposed) ==
    LET ef == get_sc_fermi(ds)
        T  == ds.temperature
        sp(i) == ds.defect_species[i]
        value(i) ==
            IF decomposed
            THEN LET cs == charge_state_concentrations(sp(i), ef, T)
                 IN  [q \in DOMAIN cs |-> ToPerVolume(cs[q], ds.volume)]
            ELSE ToPerVolume(get_concentration(sp(i), ef, T), ds.volume)
    IN  << <<Name_FermiEnergy, ef>>,
           <<Name_p0, T \div 50 + Abs(ef)>>,
           <<Name_n0, T \div 100 + Abs(ef)>> >>
        \o [i \in DOMAIN ds.defect_species |-> <<sp(i).name, value(i)>>]

DictKeys(d) == {d[i][1] : i \in DOMAIN d}
DictGet(d, k) == (CHOOSE i \in DOMAIN d : d[i][1] = k) \* first and only entry of key k
DictVal(d, k) == d[DictGet(d, k)][2]

-----------------------------------------------------------------------------
(* The backend guard and the backend-specific private operations.           *)
(* Each operation yields [err, val, log]: the exception raised (or NoErr),   *)
(* the value returned, and the collaborator calls it made.                   *)

\* the backend guard never fires
MutCheck_NeverRaises(self, required_backend) == NoErr

\* FermiSolver._check_required_backend_and_error: the RuntimeError raised, or NoErr
_check_required_backend_and_error(self, required_backend) ==
    IF required_backend # self.backend
    THEN Raise("RuntimeError",
               <<"This function is only supported for the ", required_backend,
                 " backend, but you are using the ", self.backend, " backend!">>)
    ELSE NoErr

Fail(e, lg) == [err |-> e, val |-> NoRet, log |-> lg]

\* a collaborator call: the method, and the conditions it is asked to solve
LogCall(op, chempots, temperatures, dopant) ==
    [op |-> op, chempots |-> chempots, temperatures |-> temperatures, dopant |-> dopant]
Ok(v, lg) == [err |-> NoErr, val |-> v, log |-> lg]

\* FermiSolver._get_fermi_level_and_carriers
_get_fermi_level_and_carriers(self, chempots, temperature, dopant) ==
    LET chk == _check_required_backend_and_error(self, "doped")
    IN  IF chk # NoErr THEN Fail(chk, <<>>)
        ELSE Ok(get_equilibrium_fermi_level(chempots, temperature, dopant),
                <<LogCall("get_equilibrium_fermi_level", chempots, <<temperature>>, dopant)>>)

\* FermiSolver._handle_chempots_for_py_sc_fermi
_handle_chempots_for_py_sc_fermi(self, chempots) ==
    IF ~IsNone(self.chempots) /\ ~IsNone(self.chempots.elemental_refs)
    THEN Ok([k \in DOMAIN chempots |->
                FAdd(chempots[k],
                     IF k \in DOMAIN self.chempots.elemental_refs.v
                     THEN self.chempots.elemental_refs.v[k] ELSE 0)], <<>>)
    ELSE Fail(Raise("ValueError", <<"self.chempots or self.chempots['elemental_refs'] is None">>), <<>>)

\* FermiSolver._generate_dopant_for_py_sc_fermi
_generate_dopant_for_py_sc_fermi(self, c) ==
    LET chk == _check_required_backend_and_error(self, "py-sc-fermi")
        charge == IF c > 0 THEN 1 ELSE -1
    IN  IF chk # NoErr THEN Fail(chk, <<>>)
        ELSE IF c = 0
        THEN Fail(Raise("UnboundLocalError", <<"local variable 'charge' referenced before assignment">>), <<>>)
        ELSE Ok([ name |-> Name_Dopant,
                  nsites |-> 1,
                  fixed_concentration |-> {},
                  charge_states |->
                    (charge :> [charge |-> charge, energy |-> 0, degeneracy |-> 1,
                                fixed_concentration |-> {ToInternal(Abs(c), self.volume)}]) ], <<>>)

\* lines 1409-1412: the species dict is keyed by a set of labels, so its order is the
\* order in which the interpreter's string hashing iterates that set (hashorder)
SpeciesOrder(hashorder) == hashorder

\* FermiSolver._generate_defect_system from line 1398 on, given the shifted chemical
\* potentials (shifted) and the dopant species (dop)
DefectSystemOf(self, temperature, dopant, labels, shifted, dop) ==
    LET calls   == [i \in DOMAIN DefectEntries |->
                       LogCall("get_formation_energy", shifted.val, <<>>, PyNone)]
        species(label) ==
            [ name |-> label,
              nsites |-> FDiv(DefectEntries[CHOOSE e \in EntriesOf(label) :
                                  \A e2 \in EntriesOf(label) : e2 <= e].multiplicity,
                              self.multiplicity_scaling),
              fixed_concentration |-> {},
              charge_states |->
                [ q \in {_get_label_and_charge(DefectEntries[e].name)[2] : e \in EntriesOf(label)} |->
                    LET e == CHOOSE x \in EntriesOf(label) :
                                 /\ _get_label_and_charge(DefectEntries[x].name)[2] = q
                                 /\ \A y \in EntriesOf(label) :
                                        _get_label_and_charge(DefectEntries[y].name)[2] = q => y <= x
                    IN  [ charge |-> q,
                          energy |-> get_formation_energy(DefectEntries[e], shifted.val),
                          degeneracy |-> DefectEntries[e].degeneracy,
                          fixed_concentration |-> {} ] ] ]
        all_defect_species == [i \in DOMAIN labels |-> species(labels[i])]
    IN  IF shifted.err # NoErr THEN Fail(shifted.err, <<>>)
        ELSE IF self.multiplicity_scaling = 0
        THEN Fail(Raise("ZeroDivisionError", <<"division by zero">>), <<>>)
        ELSE IF dop.err # NoErr THEN Fail(dop.err, calls)
        ELSE Ok([ defect_species |->
                    IF IsNone(dopant) THEN all_defect_species
                    ELSE Append(all_defect_species, dop.val),
                  dos |-> "DOS",
                  volume |-> self.volume,
                  temperature |-> temperature,
                  convergence_tolerance |-> "1e-20" ], calls)

\* FermiSolver._generate_defect_system
_generate_defect_system(self, temperature, chempots, dopant, hashorder) ==
    IF _check_required_backend_and_error(self, "py-sc-fermi") # NoErr
    THEN Fail(_check_required_backend_and_error(self, "py-sc-fermi"), <<>>)
    ELSE DefectSystemOf(self, temperature, dopant, SpeciesOrder(hashorder),
                        _handle_chempots_for_py_sc_fermi(self, chempots),
                        IF IsNone(dopant) THEN Ok(PyNone, <<>>)
                        ELSE _generate_dopant_for_py_sc_fermi(self, dopant.v))

\* DefectSpecies.fix_concentration / DefectChargeState.fix_concentration
fix_concentration(x, c) == [x EXCEPT !.fixed_concentration = {c}]

\* the concentrations are fixed on the deep copy, not on the system that was solved
MutFixAndCopy_FixesTheCopyOnly(ds, quenched, fix_charge_states, free_defects, initial_conc_dict, decomposed_conc_dict) ==
    LET all_free_defects == {Name_FermiEnergy, Name_n0, Name_p0} \cup free_defects
        additional_keys ==
            { kq \in DictKeys(decomposed_conc_dict) \X {-2, -1, 0, 1, 2} :
                /\ kq[1] \notin all_free_defects
                /\ kq[2] \in DOMAIN DictVal(decomposed_conc_dict, kq[1]) }
        additional_data(key) ==
            LET kq == CHOOSE x \in additional_keys : Append(x[1], IntStr(x[2])) = key
            IN  DictVal(decomposed_conc_dict, kq[1])[kq[2]]
        additional_names == {Append(x[1], IntStr(x[2])) : x \in additional_keys}
        \* initial_conc_dict.update(additional_data), minus the free ones
        fixed_keys == ((DictKeys(initial_conc_dict) \cup additional_names) \ all_free_defects)
        fixed_concs(key) ==
            IF key \in additional_names THEN additional_data(key)
            ELSE DictVal(initial_conc_dict, key)
        fixed(sp) ==
            IF fix_charge_states
            THEN [sp EXCEPT !.charge_states =
                     [q \in DOMAIN sp.charge_states |->
                         IF Append(sp.name, IntStr(q)) \in fixed_keys
                         THEN fix_concentration(sp.charge_states[q],
                                  ToInternal(fixed_concs(Append(sp.name, IntStr(q))), ds.volume))
                         ELSE sp.charge_states[q]]]
            ELSE IF sp.name \in fixed_keys
            THEN fix_concentration(sp, ToInternal(fixed_concs(sp.name), ds.volume))
            ELSE sp
        defect_system == [ds EXCEPT !.defect_species = [i \in DOMAIN ds.defect_species |-> fixed(ds.defect_species[i])]]
    IN  [target_system |-> [defect_system EXCEPT !.temperature = quenched],
         defect_system |-> ds]

\* lines 1497-1526: the concentrations found at the annealing temperature are fixed on
\* defect_system itself, which is then deep-copied and given the quenched temperature
FixAndCopy(ds, quenched, fix_charge_states, free_defects, initial_conc_dict, decomposed_conc_dict) ==
    LET all_free_defects == {Name_FermiEnergy, Name_n0, Name_p0} \cup free_defects
        additional_keys ==
            { kq \in DictKeys(decomposed_conc_dict) \X {-2, -1, 0, 1, 2} :
                /\ kq[1] \notin all_free_defects
                /\ kq[2] \in DOMAIN DictVal(decomposed_conc_dict, kq[1]) }
        additional_data(key) ==
            LET kq == CHOOSE x \in additional_keys : Append(x[1], IntStr(x[2])) = key
            IN  DictVal(decomposed_conc_dict, kq[1])[kq[2]]
        additional_names == {Append(x[1], IntStr(x[2])) : x \in additional_keys}
        \* initial_conc_dict.update(additional_data), minus the free ones
        fixed_keys == ((DictKeys(initial_conc_dict) \cup additional_names) \ all_free_defects)
        fixed_concs(key) ==
            IF key \in additional_names THEN additional_data(key)
            ELSE DictVal(initial_conc_dict, key)
        fixed(sp) ==
            IF fix_charge_states
            THEN [sp EXCEPT !.charge_states =
                     [q \in DOMAIN sp.charge_states |->
                         IF Append(sp.name, IntStr(q)) \in fixed_keys
                         THEN fix_concentration(sp.charge_states[q],
                                  ToInternal(fixed_concs(Append(sp.name, IntStr(q))), ds.volume))
                         ELSE sp.charge_states[q]]]
            ELSE IF sp.name \in fixed_keys
            THEN fix_concentration(sp, ToInternal(fixed_concs(sp.name), ds.volume))
            ELSE sp
        defect_system == [ds EXCEPT !.defect_species = [i \in DOMAIN ds.defect_species |-> fixed(ds.defect_species[i])]]
    IN  [target_system |-> [defect_system EXCEPT !.temperature = quenched],
         defect_system |-> defect_system]

\* the concentrations to freeze are read after the system is set to the quenched temperature
MutAnnealedOf_FixesQuenchedTotals(gen, chempots, quenched, annealing, fix_charge_states, dopant, free_defects) ==
    IF gen.err # NoErr THEN Fail(gen.err, gen.log)
    ELSE Ok(FixAndCopy(gen.val, quenched, fix_charge_states, free_defects,
                       concentration_dict([gen.val EXCEPT !.temperature = quenched], FALSE),
                       concentration_dict([gen.val EXCEPT !.temperature = quenched], TRUE)),
            gen.log \o <<LogCall("concentration_dict", chempots, <<annealing>>, dopant),
                         LogCall("concentration_dict(decomposed)", chempots, <<annealing>>, dopant)>>)

\* lines 1497-1528, given the outcome gen of _generate_defect_system
AnnealedOf(gen, chempots, quenched, annealing, fix_charge_states, dopant, free_defects) ==
    IF gen.err # NoErr THEN Fail(gen.err, gen.log)
    ELSE Ok(FixAndCopy(gen.val, quenched, fix_charge_states, free_defects,
                       concentration_dict(gen.val, FALSE), concentration_dict(gen.val, TRUE)),
            gen.log \o <<LogCall("concentration_dict", chempots, <<annealing>>, dopant),
                         LogCall("concentration_dict(decomposed)", chempots, <<annealing>>, dopant)>>)

\* FermiSolver._generate_annealed_defect_system: [err, val, log], where val holds the
\* returned copy (target_system) and the system solved at the annealing temperature
_generate_annealed_defect_system(self, chempots, quenched, annealing, fix_charge_states, dopant, free_defects, hashorder) ==
    IF _check_required_backend_and_error(self, "py-sc-fermi") # NoErr
    THEN Fail(_check_required_backend_and_error(self, "py-sc-fermi"), <<>>)
    ELSE AnnealedOf(_generate_defect_system(self, annealing, chempots, dopant, hashorder),
                    chempots, quenched, annealing, fix_charge_states, dopant, free_defects)

-----------------------------------------------------------------------------
(* The two solvers.  A table (DataFrame) is a sequence of rows; a row maps   *)
(* column names to values, the index column being "Defect".                  *)

\* the rows of conc_dict whose key is not in excluded, in dict order
RECURSIVE DictItemsExcept(_, _)
DictItemsExcept(d, excluded) ==
    IF d = <<>> THEN <<>>
    ELSE IF Head(d)[1] \in excluded THEN DictItemsExcept(Tail(d), excluded)
    ELSE <<Head(d)>> \o DictItemsExcept(Tail(d), excluded)

\* lines 364-392: the doped path of equilibrium_solve, given the outcome flc of
\* _get_fermi_level_and_carriers
DopedEquilibrium(flc, chempots, temperature, dopant) ==
    IF flc.err # NoErr THEN Fail(flc.err, flc.log)
    ELSE Ok(SetColumn(SetColumn(SetColumn(SetColumn(
                _add_effective_dopant_concentration(
                    get_equilibrium_concentrations(chempots, flc.val.fermi_level, temperature),
                    dopant),
                "Fermi Level", flc.val.fermi_level),
                "Electrons (cm^-3)", flc.val.electrons),
                "Holes (cm^-3)", flc.val.holes),
                "Temperature", temperature),
            flc.log \o <<LogCall("get_equilibrium_concentrations", chempots, <<temperature>>, PyNone)>>)

\* lines 399-419 and 586-611: one row per key of conc_dict that is not excluded, each
\* with the columns of base, the carriers, and the dopant if conc_dict has one
ConcentrationRows(conc_dict, base, excluded) ==
    LET carriers == base @@
                    ("Fermi Level" :> DictVal(conc_dict, Name_FermiEnergy)) @@
                    ("Holes (cm^-3)" :> DictVal(conc_dict, Name_p0)) @@
                    ("Electrons (cm^-3)" :> DictVal(conc_dict, Name_n0))
        withdop  == IF Name_Dopant \in DictKeys(conc_dict)
                    THEN SetCol(carriers, "Dopant (cm^-3)", DictVal(conc_dict, Name_Dopant))
                    ELSE carriers
        items    == DictItemsExcept(conc_dict, excluded)
    IN  [i \in DOMAIN items |->
            SetCol(SetCol(withdop, "Defect", items[i][1]), "Concentration (cm^-3)", items[i][2])]

\* lines 395-419: the py-sc-fermi path of equilibrium_solve, given the outcome gen of
\* _generate_defect_system
ScFermiEquilibrium(gen, chempots, temperature, dopant) ==
    IF gen.err # NoErr THEN Fail(gen.err, gen.log)
    ELSE Ok(ConcentrationRows(concentration_dict(gen.val, FALSE),
                              "Temperature" :> gen.val.temperature,
                              {Name_FermiEnergy, Name_n0, Name_p0, Name_Dopant}),
            gen.log \o <<LogCall("concentration_dict", chempots, <<temperature>>, dopant)>>)

\* FermiSolver.equilibrium_solve
equilibrium_solve(self, chempots, temperature, dopant, hashorder) ==
    IF self.backend = "doped"
    THEN DopedEquilibrium(_get_fermi_level_and_carriers(self, chempots, temperature, dopant),
                          chempots, temperature, dopant)
    ELSE ScFermiEquilibrium(_generate_defect_system(self, temperature, chempots, dopant, hashorder),
                            chempots, temperature, dopant)

\* lines 537-579: the doped path of pseudo_equilibrium_solve, given the tuple q that
\* get_quenched_fermi_level_and_concentrations returns
DopedPseudoEquilibrium(q, chempots, quenched, annealing, dopant) ==
    Ok(RenameColumn(
           DropDuplicates(
               SetColumn(SetColumn(SetColumn(SetColumn(SetColumn(
                   DropColumns(q.concentrations,
                       {"Charge", "Charge State Population", "Concentration (cm^-3)",
                        "Formation Energy (eV)"}),
                   "Fermi Level", q.fermi_level),
                   "Electrons (cm^-3)", q.electrons),
                   "Holes (cm^-3)", q.holes),
                   "Annealing Temperature", annealing),
                   "Quenched Temperature", quenched)),
           "Total Concentration (cm^-3)", "Concentration (cm^-3)"),
       <<LogCall("get_quenched_fermi_level_and_concentrations", chempots,
                 <<annealing, quenched>>, dopant)>>)

\* lines 582-611: the py-sc-fermi path of pseudo_equilibrium_solve, given the outcome
\* gen of _generate_annealed_defect_system
ScFermiPseudoEquilibrium(gen, chempots, quenched, annealing, dopant) ==
    IF gen.err # NoErr THEN Fail(gen.err, gen.log)
    ELSE Ok(ConcentrationRows(concentration_dict(gen.val.target_system, FALSE),
                              ("Annealing Temperature" :> annealing) @@
                              ("Quenched Temperature" :> quenched),
                              {Name_FermiEnergy, Name_n0, Name_p0}),
            gen.log \o <<LogCall("concentration_dict", chempots, <<annealing, quenched>>, dopant)>>)

\* the options of the py-sc-fermi path are refused under the doped backend
MutPseudoEquilibriumSolve_OptionsNeedPyScFermi(self, chempots, quenched, annealing, dopant, fix_charge_states, free_defects, hashorder) ==
    IF self.backend = "doped" /\ (fix_charge_states \/ free_defects # {})
    THEN Fail(_check_required_backend_and_error(self, "py-sc-fermi"), <<>>)
    ELSE IF self.backend = "doped"
    THEN DopedPseudoEquilibrium(
             get_quenched_fermi_level_and_concentrations(chempots, annealing, quenched, dopant),
             chempots, quenched, annealing, dopant)
    ELSE ScFermiPseudoEquilibrium(
             _generate_annealed_defect_system(self, chempots, quenched, annealing,
                                              fix_charge_states, dopant, free_defects, hashorder),
             chempots, quenched, annealing, dopant)

\* FermiSolver.pseudo_equilibrium_solve
pseudo_equilibrium_solve(self, chempots, quenched, annealing, dopant, fix_charge_states, free_defects, hashorder) ==
    IF self.backend = "doped"
    THEN DopedPseudoEquilibrium(
             get_quenched_fermi_level_and_concentrations(chempots, annealing, quenched, dopant),
             chempots, quenched, annealing, dopant)
    ELSE ScFermiPseudoEquilibrium(
             _generate_annealed_defect_system(self, chempots, quenched, annealing,
                                              fix_charge_states, dopant, free_defects, hashorder),
             chempots, quenched, annealing, dopant)

-----------------------------------------------------------------------------
(* The units of work the scans hand to Parallel *)

\* "for key, value in chempots.items(): results_df[key] = value"
AppendChempots(res, chempots) ==
    IF res.err # NoErr THEN res
    ELSE Ok(SetColumns(res.val, chempots, DOMAIN chempots), res.log)

\* FermiSolver._solve_and_append_chempots
_solve_and_append_chempots(self, chempots, temperature, dopant, hashorder) ==
    AppendChempots(equilibrium_solve(self, chempots, temperature, dopant, hashorder), chempots)

\* FermiSolver._solve_and_append_chempots_pseudo
_solve_and_append_chempots_pseudo(self, chempots, quenched, annealing, dopant, hashorder) ==
    AppendChempots(pseudo_equilibrium_solve(self, chempots, quenched, annealing, dopant,
                                            FALSE, {}, hashorder), chempots)

\* the scanned dopant value is copied to the Dopant column with its sign
MutDopantColumn_Signed(c) == c

\* the value written to the "Dopant (cm^-3)" column (lines 1056 and 1087)
DopantColumn(c) == Abs(c)

\* 'results_df["Dopant (cm^-3)"] = abs(effective_dopant_concentration)'
AppendDopant(res, dopant) ==
    IF res.err # NoErr THEN res
    ELSE Ok(SetColumn(res.val, "Dopant (cm^-3)", DopantColumn(dopant.v)), res.log)

\* FermiSolver._add_effective_dopant_concentration_and_solve
_add_effective_dopant_concentration_and_solve(self, chempots, temperature, dopant, hashorder) ==
    IF IsNone(dopant)
    THEN Fail(Raise("ValueError", <<"You must specify the effective dopant concentration.">>), <<>>)
    ELSE AppendDopant(_solve_and_append_chempots(self, chempots, temperature, dopant, hashorder),
                      dopant)

\* FermiSolver._add_effective_dopant_concentration_and_solve_pseudo
_add_effective_dopant_concentration_and_solve_pseudo(self, chempots, quenched, annealing, dopant, hashorder) ==
    IF IsNone(dopant)
    THEN Fail(Raise("ValueError", <<"You must specify the effective dopant concentration.">>), <<>>)
    ELSE AppendDopant(_solve_and_append_chempots_pseudo(self, chempots, quenched, annealing,
                                                        dopant, hashorder), dopant)

-----------------------------------------------------------------------------
(* Interpolation of chemical potentials *)

\* FermiSolver._get_interpolated_chempots: start + (end - start) * i / (n_points - 1)
\* for i in range(n_points), in floating point
_get_interpolated_chempots(chem_pot_start, chem_pot_end, n_points) ==
    IF n_points <= 0 THEN Ok(<<>>, <<>>)
    ELSE IF n_points = 1 THEN Fail(Raise("ZeroDivisionError", <<"float division by zero">>), <<>>)
    ELSE Ok([ i \in 1..n_points |->
                [ key \in DOMAIN chem_pot_start |->
                    FAdd(chem_pot_start[key],
                         FDiv(FMul(FSub(chem_pot_end[key], chem_pot_start[key]), i - 1),
                              n_points - 1)) ] ], <<>>)

-----------------------------------------------------------------------------
(* ChemicalPotentialGrid.  A table of chemical potentials is a sequence of   *)
(* rows [A, B, C]: A and B are the independent variables, C (the last       *)
(* column) the dependent one.  Grid coordinates are computed exactly: the    *)
(* chemical potentials handed to a grid are whole multiples of GridUnit, so  *)
(* that every lattice step and every midpoint taken within the bounds is a   *)
(* whole number.                                                             *)

GridUnit == 2^MaxIter * Factorial(MaxPoints - 1)

\* twice the signed area of the triangle a, b, c (points <<x, y>>)
Orient(a, b, c) == (b[1] - a[1]) * (c[2] - a[2]) - (b[2] - a[2]) * (c[1] - a[1])

\* only the points strictly inside a triangle count
MutFindSimplex_StrictlyInside(points, p) ==
    \E a \in points, b \in points, c \in points :
        /\ Orient(a, b, c) > 0
        /\ Orient(a, b, p) > 0
        /\ Orient(b, c, p) > 0
        /\ Orient(c, a, p) > 0

\* scipy's Delaunay(points).find_simplex(p) >= 0: p lies in a triangle of the points,
\* its boundary included
find_simplex(points, p) ==
    \E a \in points, b \in points, c \in points :
        /\ Orient(a, b, c) > 0
        /\ Orient(a, b, p) >= 0
        /\ Orient(b, c, p) >= 0
        /\ Orient(c, a, p) >= 0

\* scipy's griddata(points, values, p, method="linear"): the barycentric interpolation
\* of the dependent variable in a triangle of the vertices that holds p (the vertices
\* tried lie on one plane, so every such triangle gives the same value)
griddata(rows, p) ==
    LET pt(i) == <<rows[i].A, rows[i].B>>
        t == CHOOSE t \in (DOMAIN rows) \X (DOMAIN rows) \X (DOMAIN rows) :
                /\ Orient(pt(t[1]), pt(t[2]), pt(t[3])) > 0
                /\ Orient(pt(t[1]), pt(t[2]), p) >= 0
                /\ Orient(pt(t[2]), pt(t[3]), p) >= 0
                /\ Orient(pt(t[3]), pt(t[1]), p) >= 0
    IN  (Orient(pt(t[2]), pt(t[3]), p) * rows[t[1]].C
         + Orient(pt(t[3]), pt(t[1]), p) * rows[t[2]].C
         + Orient(pt(t[1]), pt(t[2]), p) * rows[t[3]].C)
        \div Orient(pt(t[1]), pt(t[2]), pt(t[3]))

\* np.mgrid[lo:hi:complex(0, n)]: n evenly spaced values from lo to hi inclusive
mgrid(lo, hi, n) == [i \in 1..n |-> IF n = 1 THEN lo ELSE lo + ((i - 1) * (hi - lo)) \div (n - 1)]

\* every lattice point of the bounding box is kept, in the hull or not
MutGrid_NoHullFilter(mu_dataframe, n_points) ==
    LET points == {<<mu_dataframe[i].A, mu_dataframe[i].B>> : i \in DOMAIN mu_dataframe}
        xs     == {pt[1] : pt \in points}
        ys     == {pt[2] : pt \in points}
        grid_x == mgrid(CHOOSE x \in xs : \A z \in xs : x <= z,
                        CHOOSE x \in xs : \A z \in xs : x >= z, n_points)
        grid_y == mgrid(CHOOSE y \in ys : \A z \in ys : y <= z,
                        CHOOSE y \in ys : \A z \in ys : y >= z, n_points)
        grid_points == [k \in 1..(n_points * n_points) |->
                           <<grid_x[((k - 1) \div n_points) + 1], grid_y[((k - 1) % n_points) + 1]>>]
        Inside(pt) == TRUE
        points_inside == SelectSeq(grid_points, Inside)
    IN  IF \A a \in points, b \in points, c \in points : Orient(a, b, c) = 0
        THEN Fail(Raise("QhullError", <<"initial simplex is flat">>), <<>>)
        ELSE Ok([k \in DOMAIN points_inside |->
                    [A |-> points_inside[k][1], B |-> points_inside[k][2],
                     C |-> IF find_simplex(points, points_inside[k])
                           THEN griddata(mu_dataframe, points_inside[k]) ELSE 0]]
                \o mu_dataframe, <<>>)

\* ChemicalPotentialGrid.grid_from_dataframe: the lattice points of the bounding box
\* that lie in the convex hull, each with the interpolated dependent variable, followed
\* by the vertices themselves
grid_from_dataframe(mu_dataframe, n_points) ==
    LET points == {<<mu_dataframe[i].A, mu_dataframe[i].B>> : i \in DOMAIN mu_dataframe}
        xs     == {pt[1] : pt \in points}
        ys     == {pt[2] : pt \in points}
        grid_x == mgrid(CHOOSE x \in xs : \A z \in xs : x <= z,
                        CHOOSE x \in xs : \A z \in xs : x >= z, n_points)
        grid_y == mgrid(CHOOSE y \in ys : \A z \in ys : y <= z,
                        CHOOSE y \in ys : \A z \in ys : y >= z, n_points)
        grid_points == [k \in 1..(n_points * n_points) |->
                           <<grid_x[((k - 1) \div n_points) + 1], grid_y[((k - 1) % n_points) + 1]>>]
        Inside(pt) == find_simplex(points, pt)
        points_inside == SelectSeq(grid_points, Inside)
    IN  IF \A a \in points, b \in points, c \in points : Orient(a, b, c) = 0
        THEN Fail(Raise("QhullError", <<"initial simplex is flat">>), <<>>)
        ELSE Ok([k \in DOMAIN points_inside |->
                    [A |-> points_inside[k][1], B |-> points_inside[k][2],
                     C |-> griddata(mu_dataframe, points_inside[k])]]
                \o mu_dataframe, <<>>)

\* ChemicalPotentialGrid.get_grid
get_grid(vertices, n_points) ==
    grid_from_dataframe(vertices, IF IsNone(n_points) THEN 100 ELSE n_points.v)

\* the order of the keys of chempots["limits_wrt_el_refs"]
LimitNames == <<"L1", "L2", "L3">>

\* ChemicalPotentialGrid.from_chempots(chempots).vertices: one row per limit
from_chempots(chempots) ==
    [i \in DOMAIN LimitNames |-> chempots.limits_wrt_el_refs[LimitNames[i]]]

-----------------------------------------------------------------------------
(* Inputs tried *)

CP1 == [A |-> 0, B |-> -2]
CP2 == [A |-> -2, B |-> 0]
CP3 == [A |-> -7, B |-> 10]
CP4 == [A |-> -1, B |-> -4]
CP5 == [A |-> 6, B |-> -6]

\* endpoints tried for the interpolation
ChempotSets == {CP1, CP2, CP3, CP4, CP5}

Str(x) == [t |-> "str", v |-> x]

\* (chempots, limit) argument pairs: a dict; an "X-rich" label; a key of the limits; neither
ChempotsAndLimit ==
    { <<PyDict(CP1), PyNone>>, <<PyNone, Str("A-rich")>>, <<PyNone, Str("L2")>>, <<PyNone, PyNone>> }

TemperatureRanges == {PyFloat(300), PyInt(300), PyList(<<300, 600>>), PyList(<<>>)}
AnnealingRanges == {PyNone, PyFloat(1000), PyInt(1000), PyList(<<1000, 600>>)}
QuenchingRanges == {PyNone, PyFloat(300), PyList(<<300, 600>>)}
DopantRanges == {PyFloat(2), PyFloat(-2), PyInt(2), PyList(<<2, -2>>), PyList(<<-2, 0>>)}
OptionalAnnealing == {PyNone, PyFloat(1000)}
OptionalQuenching == {PyNone, PyFloat(300)}
ChempotLists == {<<CP1, CP2>>, <<CP4>>}
Processes == 1..MaxProcs

-----------------------------------------------------------------------------
(* The scan entry points, up to the call of Parallel: each yields the        *)
(* exception raised before any unit runs, or the units in iteration order.   *)

Task(fn, chempots, temperatures, dopant) ==
    [fn |-> fn, chempots |-> chempots, temperatures |-> temperatures, dopant |-> dopant]

\* FermiSolver._get_limits
_get_limits(self, limit) ==
    LET limit_dict == get_rich_poor_limit_dict(self.chempots)
    IN  IF limit.v \in DOMAIN limit_dict
        THEN Ok(self.chempots.limits_wrt_el_refs[limit_dict[limit.v]], <<>>)
        ELSE Fail(Raise("StopIteration", <<>>), <<>>)

\* "if chempots is None and limit is not None: ... elif chempots is None: raise"
ResolveChempots(self, chempots, limit) ==
    IF IsNone(chempots) /\ ~IsNone(limit) THEN _get_limits(self, limit)
    ELSE IF IsNone(chempots)
    THEN Fail(Raise("ValueError", <<"You must specify a limit or chempots dictionary.">>), <<>>)
    ELSE Ok(chempots.v, <<>>)

\* "if isinstance(x, float): x = [x]"
WrapFloat(x) == IF x.t = "float" THEN PyList(<<x.v>>) ELSE x

NotIterable(x) == Raise("TypeError", <<"'", x.t, "' object is not iterable">>)

BothOrNeitherError ==
    Raise("ValueError", <<"You must specify both annealing and quenching temperature, or just temperature.">>)

\* itertools.product(xs, ys): xs outermost
RECURSIVE Product(_, _)
Product(xs, ys) ==
    IF xs = <<>> THEN <<>>
    ELSE [j \in DOMAIN ys |-> <<Head(xs), ys[j]>>] \o Product(Tail(xs), ys)

\* the temperature range is scanned last to first, and the product is taken with the
\* annealing range outermost
MutScanTemperature_Reversed(self, temperature_range, chempots, limit, annealing_temperature_range, quenching_temperature_range) ==
    LET trange == WrapFloat(temperature_range)
        arange == WrapFloat(annealing_temperature_range)
        qrange == WrapFloat(quenching_temperature_range)
        cp     == ResolveChempots(self, chempots, limit)
        n      == Len(trange.items)
        pairs  == Product(arange.items, qrange.items)
    IN  IF cp.err # NoErr THEN cp
        ELSE IF ~IsNone(arange) /\ ~IsNone(qrange)
        THEN IF qrange.t # "list" THEN Fail(NotIterable(qrange), <<>>)
             ELSE IF arange.t # "list" THEN Fail(NotIterable(arange), <<>>)
             ELSE Ok([i \in DOMAIN pairs |->
                         Task("_solve_and_append_chempots_pseudo", cp.val,
                              <<pairs[i][2], pairs[i][1]>>, PyNone)], <<>>)
        ELSE IF IsNone(arange) /\ IsNone(qrange)
        THEN IF trange.t # "list" THEN Fail(NotIterable(trange), <<>>)
             ELSE Ok([i \in 1..n |->
                         Task("_solve_and_append_chempots", cp.val, <<trange.items[n + 1 - i]>>, PyNone)], <<>>)
        ELSE Fail(BothOrNeitherError, <<>>)

\* FermiSolver.scan_temperature, lines 659-698 (a pseudo task holds <<quenched, annealing>>)
scan_temperature(self, temperature_range, chempots, limit, annealing_temperature_range, quenching_temperature_range) ==
    LET trange == WrapFloat(temperature_range)
        arange == WrapFloat(annealing_temperature_range)
        qrange == WrapFloat(quenching_temperature_range)
        cp     == ResolveChempots(self, chempots, limit)
        pairs  == Product(qrange.items, arange.items)
    IN  IF cp.err # NoErr THEN cp
        ELSE IF ~IsNone(arange) /\ ~IsNone(qrange)
        THEN IF qrange.t # "list" THEN Fail(NotIterable(qrange), <<>>)
             ELSE IF arange.t # "list" THEN Fail(NotIterable(arange), <<>>)
             ELSE Ok([i \in DOMAIN pairs |->
                         Task("_solve_and_append_chempots_pseudo", cp.val,
                              <<pairs[i][1], pairs[i][2]>>, PyNone)], <<>>)
        ELSE IF IsNone(arange) /\ IsNone(qrange)
        THEN IF trange.t # "list" THEN Fail(NotIterable(trange), <<>>)
             ELSE Ok([i \in DOMAIN trange.items |->
                         Task("_solve_and_append_chempots", cp.val, <<trange.items[i]>>, PyNone)], <<>>)
        ELSE Fail(BothOrNeitherError, <<>>)

\* Parallel(n_jobs)(delayed(f)(...)) without a "for": the iterable handed to Parallel is
\* the one tuple (f, args, kwargs), whose first item, f, cannot be unpacked into a call
NotADelayedCall == Raise("TypeError", <<"cannot unpack non-iterable method object">>)

\* FermiSolver.scan_chempots, lines 737-761
scan_chempots(self, chempots, temperature, annealing_temperature, quenching_temperature) ==
    IF ~IsNone(annealing_temperature) /\ ~IsNone(quenching_temperature)
    THEN Fail(NotADelayedCall, <<>>)
    ELSE IF IsNone(annealing_temperature) /\ IsNone(quenching_temperature)
    THEN Fail(NotADelayedCall, <<>>)
    ELSE Fail(BothOrNeitherError, <<>>)

\* FermiSolver.scan_dopant_concentration, lines 807-846
scan_dopant_concentration(self, effective_dopant_concentration_range, chempots, limit, temperature, annealing_temperature, quenching_temperature) ==
    LET drange == WrapFloat(effective_dopant_concentration_range)
        cp     == ResolveChempots(self, chempots, limit)
    IN  IF cp.err # NoErr THEN cp
        ELSE IF ~IsNone(annealing_temperature) /\ ~IsNone(quenching_temperature)
        THEN IF drange.t # "list" THEN Fail(NotIterable(drange), <<>>)
             ELSE Ok([i \in DOMAIN drange.items |->
                         Task("_add_effective_dopant_concentration_and_solve_pseudo", cp.val,
                              <<quenching_temperature.v, annealing_temperature.v>>,
                              PyFloat(drange.items[i]))], <<>>)
        ELSE IF IsNone(annealing_temperature) /\ IsNone(quenching_temperature)
        THEN IF drange.t # "list" THEN Fail(NotIterable(drange), <<>>)
             ELSE Ok([i \in DOMAIN drange.items |->
                         Task("_add_effective_dopant_concentration_and_solve", cp.val,
                              <<temperature.v>>, PyFloat(drange.items[i]))], <<>>)
        ELSE Fail(BothOrNeitherError, <<>>)

\* FermiSolver.interpolate_chempots, lines 892-924
interpolate_chempots(self, n_points, temperature, chempots, limits, annealing_temperature, quenching_temperature) ==
    LET l1 == _get_limits(self, Str(limits.items[1]))
        l2 == _get_limits(self, Str(limits.items[2]))
        uselimits == IsNone(chempots) /\ ~IsNone(limits)
        chempots_1 == IF uselimits THEN l1.val ELSE chempots.items[1]
        chempots_2 == IF uselimits THEN l2.val ELSE chempots.items[2]
        interpolated == _get_interpolated_chempots(chempots_1, chempots_2, n_points)
    IN  IF uselimits /\ l1.err # NoErr THEN l1
        ELSE IF uselimits /\ l2.err # NoErr THEN l2
        ELSE IF IsNone(chempots) /\ IsNone(limits)
        THEN Fail(Raise("UnboundLocalError", <<"local variable 'chempots_1' referenced before assignment">>), <<>>)
        ELSE IF interpolated.err # NoErr THEN interpolated
        ELSE IF ~IsNone(annealing_temperature) /\ ~IsNone(quenching_temperature)
        THEN Ok([i \in DOMAIN interpolated.val |->
                    Task("_solve_and_append_chempots_pseudo", interpolated.val[i],
                         <<quenching_temperature.v, annealing_temperature.v>>, PyNone)], <<>>)
        ELSE IF IsNone(annealing_temperature) /\ IsNone(quenching_temperature)
        THEN Ok([i \in DOMAIN interpolated.val |->
                    Task("_solve_and_append_chempots", interpolated.val[i],
                         <<temperature.v>>, PyNone)], <<>>)
        ELSE Fail(BothOrNeitherError, <<>>)

-----------------------------------------------------------------------------
(* joblib.Parallel: the units are dispatched in input order to at most       *)
(* n_jobs workers, complete in any order, and their results are returned as  *)
(* a list in input order; the first failure is raised to the caller.         *)

\* the unit a worker runs
RunUnit(self, task, hashorder) ==
    CASE task.fn = "_solve_and_append_chempots" ->
            _solve_and_append_chempots(self, task.chempots, task.temperatures[1], task.dopant, hashorder)
      [] task.fn = "_solve_and_append_chempots_pseudo" ->
            _solve_and_append_chempots_pseudo(self, task.chempots, task.temperatures[1],
                                              task.temperatures[2], task.dopant, hashorder)
      [] task.fn = "_add_effective_dopant_concentration_and_solve" ->
            _add_effective_dopant_concentration_and_solve(self, task.chempots, task.temperatures[1],
                                                          task.dopant, hashorder)
      [] task.fn = "_add_effective_dopant_concentration_and_solve_pseudo" ->
            _add_effective_dopant_concentration_and_solve_pseudo(self, task.chempots,
                task.temperatures[1], task.temperatures[2], task.dopant, hashorder)

\* the list Parallel returns: the units' results in input order
Gather(n, results) == [i \in 1..n |-> results[i].val]

Failed(results) == {i \in DOMAIN results : results[i].err # NoErr}

\* the string-hash orders a unit can run under: the parent's when n_jobs = 1 (the units
\* run in the calling interpreter), any when the units run in worker processes
HashOrders(processes, parent) == IF processes = 1 THEN {parent} ELSE LabelOrders

-----------------------------------------------------------------------------
(* Actions *)

Init ==
    /\ lib \in BOOLEAN
    /\ seed \in LabelOrders
    /\ solver = NoSolver
    /\ pc = "idle"
    /\ call = [op |-> "none"]
    /\ tasks = <<>>
    /\ started = 0
    /\ inflight = {}
    /\ slots = <<>>
    /\ all_data = <<>>
    /\ ret = NoRet
    /\ err = NoErr
    /\ warns = {}
    /\ log = <<>>
    /\ search = NoSearch

\* a call that ends at once: with a value, or with an exception
Return(c, outcome, w) ==
    /\ pc' = "returned"
    /\ call' = c
    /\ tasks' = <<>>
    /\ started' = 0
    /\ inflight' = {}
    /\ slots' = <<>>
    /\ all_data' = <<>>
    /\ ret' = outcome.val
    /\ err' = outcome.err
    /\ warns' = w
    /\ log' = outcome.log

\* a call that reaches Parallel with the units ts
StartParallel(c, ts) ==
    /\ pc' = "running"
    /\ call' = c
    /\ tasks' = ts
    /\ started' = 0
    /\ inflight' = {}
    /\ slots' = <<>>
    /\ all_data' = <<>>
    /\ ret' = NoRet
    /\ err' = NoErr
    /\ warns' = {}
    /\ log' = <<>>

\* a scan entry point raises before any unit runs, or hands its units to Parallel
Scan(c, outcome) ==
    IF outcome.err # NoErr THEN Return(c, outcome, {}) ELSE StartParallel(c, outcome.val)

\* FermiSolver(defect_thermodynamics, backend, bulk_dos, chempots, el_refs)
Construct ==
    /\ pc = "idle"
    /\ ~solver.constructed
    /\ \E backend \in BackendArgs, ratio \in VolumeRatios,
          chempots \in {PyNone, PyDict(Limits)}, el_refs \in {PyNone, PyDict(ElRefs)},
          dt_chempots \in {PyNone, PyDict(Limits)} :
          LET out == InitOutcome(backend, lib, ratio, chempots, el_refs, dt_chempots, PyNone)
          IN  /\ solver' = out.self
              /\ Return([op |-> "__init__", backend |-> backend, ratio |-> ratio,
                         chempots |-> chempots, el_refs |-> el_refs, dt_chempots |-> dt_chempots],
                        [err |-> out.err, val |-> NoRet,
                         log |-> <<LogCall("_parse_fermi_dos", <<>>, <<>>, PyNone)>>],
                        out.warns)
    /\ UNCHANGED <<lib, seed, search>>

PrivateOps ==
    { "_get_fermi_level_and_carriers", "_generate_dopant_for_py_sc_fermi",
      "_generate_defect_system", "_generate_annealed_defect_system" }

\* free_defects arguments tried: none, a species label, a proper part of a label, and a
\* species label followed by a charge
FreeDefectLists == { {}, {<<"v", "A">>}, {<<"v">>}, {<<"v", "A", "0">>} }

\* a direct call of one of the backend-specific private operations
CallPrivate ==
    /\ pc = "idle"
    /\ solver.constructed
    /\ \E op \in PrivateOps, chempots \in {CP1, Limits.L1}, T \in {300, 1000},
          dopant \in {PyNone, PyFloat(2), PyFloat(-2), PyFloat(0)},
          fix_charge_states \in BOOLEAN, free_defects \in FreeDefectLists :
          LET annealed == op = "_generate_annealed_defect_system"
              out ==
                CASE op = "_get_fermi_level_and_carriers" ->
                        _get_fermi_level_and_carriers(solver, chempots, T, dopant)
                  [] op = "_generate_dopant_for_py_sc_fermi" ->
                        _generate_dopant_for_py_sc_fermi(solver, DopantTerm(dopant))
                  [] op = "_generate_defect_system" ->
                        _generate_defect_system(solver, T, chempots, dopant, seed)
                  [] op = "_generate_annealed_defect_system" ->
                        _generate_annealed_defect_system(solver, chempots, 300, T, fix_charge_states,
                                                         dopant, free_defects, seed)
          IN  Return([op |-> op, chempots |-> chempots, temperature |-> T, dopant |-> dopant,
                      fix_charge_states |-> annealed /\ fix_charge_states,
                      free_defects |-> IF annealed THEN free_defects ELSE {}], out, {})
    /\ UNCHANGED <<lib, seed, solver, search>>

\* a direct call of equilibrium_solve
EquilibriumSolve ==
    /\ pc = "idle"
    /\ solver.constructed
    /\ \E chempots \in {CP1, Limits.L1}, T \in {300, 1000},
          dopant \in {PyNone, PyFloat(2), PyFloat(-2)} :
          Return([op |-> "equilibrium_solve", chempots |-> chempots, temperature |-> T,
                  dopant |-> dopant],
                 equilibrium_solve(solver, chempots, T, dopant, seed), {})
    /\ UNCHANGED <<lib, seed, solver, search>>

\* a direct call of pseudo_equilibrium_solve
PseudoEquilibriumSolve ==
    /\ pc = "idle"
    /\ solver.constructed
    /\ \E chempots \in {CP1, Limits.L1}, annealing \in {600, 1000},
          dopant \in {PyNone, PyFloat(2), PyFloat(-2)},
          fix_charge_states \in BOOLEAN, free_defects \in FreeDefectLists :
          Return([op |-> "pseudo_equilibrium_solve", chempots |-> chempots,
                  quenched_temperature |-> 300, annealing_temperature |-> annealing,
                  dopant |-> dopant, fix_charge_states |-> fix_charge_states,
                  free_defects |-> free_defects],
                 pseudo_equilibrium_solve(solver, chempots, 300, annealing, dopant,
                                          fix_charge_states, free_defects, seed), {})
    /\ UNCHANGED <<lib, seed, solver, search>>

ScanTemperature ==
    /\ pc = "idle"
    /\ solver.constructed
    /\ \E temperature_range \in TemperatureRanges, cl \in ChempotsAndLimit,
          annealing \in AnnealingRanges, quenching \in QuenchingRanges, processes \in Processes :
          Scan([op |-> "scan_temperature", temperature_range |-> temperature_range,
                chempots |-> cl[1], limit |-> cl[2], annealing |-> annealing,
                quenching |-> quenching, processes |-> processes],
               scan_temperature(solver, temperature_range, cl[1], cl[2], annealing, quenching))
    /\ UNCHANGED <<lib, seed, solver, search>>

ScanChempots ==
    /\ pc = "idle"
    /\ solver.constructed
    /\ \E chempots \in ChempotLists, annealing \in OptionalAnnealing,
          quenching \in OptionalQuenching, processes \in Processes :
          Scan([op |-> "scan_chempots", chempots |-> chempots, temperature |-> PyFloat(300),
                annealing |-> annealing, quenching |-> quenching, processes |-> processes],
               scan_chempots(solver, chempots, PyFloat(300), annealing, quenching))
    /\ UNCHANGED <<lib, seed, solver, search>>

ScanDopantConcentration ==
    /\ pc = "idle"
    /\ solver.constructed
    /\ \E drange \in DopantRanges, cl \in ChempotsAndLimit,
          annealing \in OptionalAnnealing, quenching \in OptionalQuenching, processes \in Processes :
          Scan([op |-> "scan_dopant_concentration", effective_dopant_concentration_range |-> drange,
                chempots |-> cl[1], limit |-> cl[2], temperature |-> PyFloat(300),
                annealing |-> annealing, quenching |-> quenching, processes |-> processes],
               scan_dopant_concentration(solver, drange, cl[1], cl[2], PyFloat(300), annealing, quenching))
    /\ UNCHANGED <<lib, seed, solver, search>>

InterpolateChempots ==
    /\ pc = "idle"
    /\ solver.constructed
    /\ \E n_points \in 0..MaxPoints,
          cl \in { <<PyList(<<CP1, CP2>>), PyNone>>, <<PyNone, PyList(<<"A-rich", "B-rich">>)>>,
                   <<PyNone, PyList(<<"L1", "L2">>)>>, <<PyNone, PyNone>> },
          annealing \in OptionalAnnealing, quenching \in OptionalQuenching, processes \in Processes :
          Scan([op |-> "interpolate_chempots", n_points |-> n_points, chempots |-> cl[1],
                limits |-> cl[2], temperature |-> PyFloat(300),
                annealing |-> annealing, quenching |-> quenching, processes |-> processes],
               interpolate_chempots(solver, n_points, PyFloat(300), cl[1], cl[2], annealing, quenching))
    /\ UNCHANGED <<lib, seed, solver, search>>

\* Parallel hands the next unit to a free worker
Dispatch ==
    /\ pc = "running"
    /\ started < Len(tasks)
    /\ Cardinality(inflight) < call.processes
    /\ Failed(slots) = {}
    /\ started' = started + 1
    /\ inflight' = inflight \cup {started + 1}
    /\ UNCHANGED <<lib, seed, solver, search, pc, call, tasks, slots, all_data, ret, err, warns, log>>

\* a worker finishes its unit
Complete ==
    /\ pc = "running"
    /\ \E i \in inflight, h \in HashOrders(call.processes, seed) :
          LET out == RunUnit(solver, tasks[i], h)
          IN  /\ slots' = (i :> out) @@ slots
              /\ inflight' = inflight \ {i}
    /\ UNCHANGED <<lib, seed, solver, search, pc, call, tasks, started, all_data, ret, err, warns, log>>

\* Parallel returns (or re-raises a unit's exception) and the tables are concatenated
Collect ==
    /\ pc = "running"
    /\ inflight = {}
    /\ started = Len(tasks) \/ Failed(slots) # {}
    /\ pc' = "returned"
    /\ IF Failed(slots) # {}
       THEN /\ err' = slots[CHOOSE i \in Failed(slots) : \A j \in Failed(slots) : i <= j].err
            /\ all_data' = <<>>
            /\ ret' = NoRet
       ELSE IF tasks = <<>>
       THEN /\ err' = Raise("ValueError", <<"No objects to concatenate">>)
            /\ all_data' = <<>>
            /\ ret' = NoRet
       ELSE /\ err' = NoErr
            /\ all_data' = Gather(Len(tasks), slots)
            /\ ret' = Flatten(Gather(Len(tasks), slots))
    /\ log' = Flatten([i \in 1..started |-> slots[i].log])
    /\ UNCHANGED <<lib, seed, solver, search, call, tasks, started, inflight, slots, warns>>

\* the caller has the returned table, or has caught the exception; its next call
\* starts from the solver alone
TakeOutcome ==
    /\ pc = "returned"
    /\ pc' = "idle"
    /\ call' = [op |-> "none"]
    /\ tasks' = <<>>
    /\ started' = 0
    /\ inflight' = {}
    /\ slots' = <<>>
    /\ all_data' = <<>>
    /\ ret' = NoRet
    /\ err' = NoErr
    /\ warns' = {}
    /\ log' = <<>>
    /\ UNCHANGED <<lib, seed, solver, search>>

Next ==
    \/ Construct
    \/ CallPrivate
    \/ EquilibriumSolve
    \/ PseudoEquilibriumSolve
    \/ ScanTemperature
    \/ ScanChempots
    \/ ScanDopantConcentration
    \/ InterpolateChempots
    \/ Dispatch
    \/ Complete
    \/ Collect
    \/ TakeOutcome

Spec == Init /\ [][Next]_vars

-----------------------------------------------------------------------------
(* _get_interpolated_chempots on its own: any two endpoints, any n_points *)

InitInterp ==
    /\ lib = FALSE
    /\ seed = CHOOSE h \in LabelOrders : TRUE
    /\ solver = NoSolver
    /\ pc = "idle"
    /\ \E chem_pot_start \in ChempotSets, chem_pot_end \in ChempotSets, n_points \in 0..MaxPoints :
          call = [op |-> "_get_interpolated_chempots", chem_pot_start |-> chem_pot_start,
                  chem_pot_end |-> chem_pot_end, n_points |-> n_points]
    /\ tasks = <<>>
    /\ started = 0
    /\ inflight = {}
    /\ slots = <<>>
    /\ all_data = <<>>
    /\ ret = NoRet
    /\ err = NoErr
    /\ warns = {}
    /\ log = <<>>
    /\ search = NoSearch

Interpolate ==
    /\ pc = "idle"
    /\ call.op = "_get_interpolated_chempots"
    /\ Return(call, _get_interpolated_chempots(call.chem_pot_start, call.chem_pot_end, call.n_points), {})
    /\ UNCHANGED <<lib, seed, solver, search>>

NextInterp == Interpolate

SpecInterp == InitInterp /\ [][NextInterp]_vars

-----------------------------------------------------------------------------
(* FermiSolver.min_max_X: the extremum search over a chemical-potential grid. *)
(* The loop is followed for at most MaxIter iterations.  The inner Parallel   *)
(* map runs its units in grid order, as it does with n_jobs = 1.              *)

NaN == [t |-> "nan"]

\* the chempots argument: three limits on the plane A + B + C = -2 GridUnit
SearchChempots ==
    [ t |-> "dict",
      limits_wrt_el_refs |->
        [ L1 |-> [A |-> 0,             B |-> -2 * GridUnit, C |-> 0],
          L2 |-> [A |-> -4 * GridUnit, B |-> 0,             C |-> 2 * GridUnit],
          L3 |-> [A |-> -2 * GridUnit, B |-> -4 * GridUnit, C |-> 4 * GridUnit] ],
      elemental_refs |-> PyDict(ElRefs) ]

\* lines 1228-1252: the grid is solved point by point and the tables are concatenated;
\* dopant is the effective_dopant_concentration passed on through **kwargs
SolveGrid(self, grid, temperature, annealing_temperature, quenching_temperature, dopant, hashorder) ==
    LET pseudo == ~IsNone(annealing_temperature) /\ ~IsNone(quenching_temperature)
        units ==
            [i \in DOMAIN grid.val |->
                RunUnit(self,
                        IF pseudo
                        THEN Task("_solve_and_append_chempots_pseudo", grid.val[i],
                                  <<quenching_temperature.v, annealing_temperature.v>>, dopant)
                        ELSE Task("_solve_and_append_chempots", grid.val[i], <<temperature.v>>, dopant),
                        hashorder)]
    IN  IF IsNone(annealing_temperature) # IsNone(quenching_temperature)
        THEN Fail(BothOrNeitherError, <<>>)
        ELSE IF grid.err # NoErr THEN grid
        ELSE IF Failed(units) # {}
        THEN Fail(units[CHOOSE i \in Failed(units) : \A j \in Failed(units) : i <= j].err, <<>>)
        ELSE Ok(Flatten(Gather(Len(units), units)),
                Flatten([i \in DOMAIN units |-> units[i].log]))

\* lines 1254-1295: the rows at the optimum.  bound tells whether target_chem_pot and
\* target_dataframe were assigned at all
FindOptimum(results_df, target, min_or_max) ==
    LET iscolumn == "col" \in DOMAIN target /\ target.col \in DOMAIN results_df[1]
        column   == IF iscolumn THEN target.col ELSE "Concentration (cm^-3)"
        filtered == IF iscolumn THEN DOMAIN results_df
                    ELSE {i \in DOMAIN results_df :
                            "label" \in DOMAIN target /\ results_df[i]["Defect"] = target.label}
        values   == {results_df[i][column] : i \in filtered}
        \* Series.min() if min_or_max == "min" else Series.max(); nan for an empty Series
        current_value ==
            IF values = {} THEN NaN
            ELSE IF min_or_max = "min" THEN PyFloat(CHOOSE v \in values : \A w \in values : v <= w)
            ELSE PyFloat(CHOOSE v \in values : \A w \in values : v >= w)
        Chempots(row) == [A |-> row.A, B |-> row.B, C |-> row.C]
        AtOptimum(row) == current_value # NaN /\ row[column] = current_value.v
        \* the rows compared are those of the whole table, for a defect target too
        target_chem_pot == [i \in DOMAIN SelectSeq(results_df, AtOptimum) |->
                               Chempots(SelectSeq(results_df, AtOptimum)[i])]
        AtFirstPoint(row) == Chempots(row) = target_chem_pot[1]
    IN  IF min_or_max \notin {"min", "max"}
        THEN [err |-> NoErr, bound |-> FALSE, current_value |-> current_value,
              target_chem_pot |-> <<>>, target_dataframe |-> <<>>]
        ELSE IF iscolumn
        THEN [err |-> NoErr, bound |-> TRUE, current_value |-> current_value,
              target_chem_pot |-> target_chem_pot,
              target_dataframe |-> SelectSeq(results_df, AtOptimum)]
        ELSE IF target_chem_pot = <<>>
        THEN [err |-> Raise("IndexError", <<"single positional indexer is out-of-bounds">>),
              bound |-> FALSE, current_value |-> current_value,
              target_chem_pot |-> <<>>, target_dataframe |-> <<>>]
        ELSE [err |-> NoErr, bound |-> TRUE, current_value |-> current_value,
              target_chem_pot |-> target_chem_pot,
              target_dataframe |-> SelectSeq(results_df, AtFirstPoint)]

MutConverged_AtFirstIteration(previous_value, current_value, tolerance) ==
    IsNone(previous_value)

\* lines 1299-1302: abs((current_value - previous_value) / previous_value) < tolerance
\* for numpy floats: a division by zero gives inf or nan, and the test is false
Converged(previous_value, current_value, tolerance) ==
    /\ ~IsNone(previous_value)
    /\ previous_value # NaN
    /\ current_value # NaN
    /\ previous_value.v # 0
    /\ Abs(current_value.v - previous_value.v) * tolerance[2] < tolerance[1] * Abs(previous_value.v)

MutNewVertices_Reflected(current_vertices, row) ==
    [i \in DOMAIN current_vertices |->
        [c \in DOMAIN current_vertices[i] |-> 2 * current_vertices[i][c] - row[c]]]

\* lines 1307-1313: (current_vertices + row) / 2, row being the first optimal point
NewVertices(current_vertices, row) ==
    [i \in DOMAIN current_vertices |->
        [c \in DOMAIN current_vertices[i] |-> (current_vertices[i][c] + row[c]) \div 2]]

MutReturnValue_FullTable(results_df, target_dataframe) == results_df

\* line 1315: return target_dataframe
ReturnValue(results_df, target_dataframe) == target_dataframe

\* one pass through the body of "while True" (lines 1228-1313), given the solved table
\* res and the optimum opt found in it: the exception raised, or the table returned at
\* the break, or the locals for the next pass
LoopBody(s, res, opt, tolerance) ==
    LET now == [s EXCEPT !.iteration = s.iteration + 1,
                         !.solved = s.starting_grid,
                         !.results_df = IF res.err = NoErr THEN res.val ELSE <<>>]
        found == [now EXCEPT !.values = Append(s.values, opt.current_value)]
    IN  IF res.err # NoErr
        THEN [done |-> TRUE, err |-> res.err, val |-> NoRet, log |-> res.log, search |-> now]
        ELSE IF opt.err # NoErr
        THEN [done |-> TRUE, err |-> opt.err, val |-> NoRet, log |-> res.log, search |-> found]
        ELSE IF Converged(s.previous_value, opt.current_value, tolerance)
        THEN [done |-> TRUE,
              err |-> IF opt.bound THEN NoErr
                      ELSE Raise("UnboundLocalError",
                                 <<"local variable 'target_dataframe' referenced before assignment">>),
              val |-> IF opt.bound THEN ReturnValue(res.val, opt.target_dataframe) ELSE NoRet,
              log |-> res.log, search |-> found]
        ELSE IF ~opt.bound
        THEN [done |-> TRUE,
              err |-> Raise("UnboundLocalError",
                            <<"local variable 'target_chem_pot' referenced before assignment">>),
              val |-> NoRet, log |-> res.log,
              search |-> [found EXCEPT !.previous_value = opt.current_value]]
        ELSE [done |-> FALSE, err |-> NoErr, val |-> NoRet, log |-> res.log,
              search |-> [found EXCEPT
                            !.previous_value = opt.current_value,
                            !.starting_grid = NewVertices(s.current_vertices, opt.target_chem_pot[1])]]

InitSearch ==
    /\ lib \in BOOLEAN
    /\ seed \in LabelOrders
    /\ \E backend \in BackendArgs :
          /\ InitOutcome(backend, lib, 100, PyDict(Limits), PyDict(ElRefs), PyNone, PyNone).err = NoErr
          /\ solver = InitOutcome(backend, lib, 100, PyDict(Limits), PyDict(ElRefs), PyNone, PyNone).self
    /\ pc = "idle"
    /\ call = [op |-> "none"]
    /\ tasks = <<>>
    /\ started = 0
    /\ inflight = {}
    /\ slots = <<>>
    /\ all_data = <<>>
    /\ ret = NoRet
    /\ err = NoErr
    /\ warns = {}
    /\ log = <<>>
    /\ search = NoSearch

\* min_max_X is called: lines 1220-1225
MinMaxX ==
    /\ pc = "idle"
    /\ solver.constructed
    /\ \E target \in { [col |-> "Electrons (cm^-3)"], [col |-> "Fermi Level"],
                        [col |-> "Dopant (cm^-3)"],
                        [label |-> <<"v", "A">>], [label |-> <<"v">>] },
          min_or_max \in {"min", "max", "minimize", "maximize", "largest"},
          n_points \in 1..MaxPoints,
          annealing \in OptionalAnnealing, quenching \in OptionalQuenching,
          dopant \in {PyNone, PyFloat(0)} :
          /\ call' = [op |-> "min_max_X", target |-> target, min_or_max |-> min_or_max,
                       chempots |-> SearchChempots, tolerance |-> <<1, 100>>,
                       n_points |-> n_points, temperature |-> PyFloat(300),
                       annealing |-> annealing, quenching |-> quenching,
                       effective_dopant_concentration |-> dopant]
          /\ search' = [active |-> TRUE,
                        starting_grid |-> from_chempots(_parse_chempots(SearchChempots, solver.el_refs)[1]),
                        current_vertices |-> from_chempots(_parse_chempots(SearchChempots, solver.el_refs)[1]),
                        previous_value |-> PyNone,
                        iteration |-> 0,
                        solved |-> <<>>,
                        results_df |-> <<>>,
                        values |-> <<>>]
    /\ pc' = "searching"
    /\ UNCHANGED <<lib, seed, solver, tasks, started, inflight, slots, all_data, ret, err, warns, log>>

\* one iteration of the loop of min_max_X
MinMaxIterate ==
    /\ pc = "searching"
    /\ search.iteration < MaxIter
    /\ \E res \in { SolveGrid(solver, get_grid(search.starting_grid, PyInt(call.n_points)),
                               call.temperature, call.annealing, call.quenching,
                               call.effective_dopant_concentration, seed) } :
       \E out \in { LoopBody(search, res, FindOptimum(res.val, call.target, call.min_or_max),
                              call.tolerance) } :
          /\ search' = out.search
          /\ pc' = IF out.done THEN "returned" ELSE "searching"
          /\ ret' = out.val
          /\ err' = out.err
          /\ log' = out.log
    /\ UNCHANGED <<lib, seed, solver, call, tasks, started, inflight, slots, all_data, warns>>

SpecSearch == InitSearch /\ [][MinMaxX \/ MinMaxIterate]_vars

-----------------------------------------------------------------------------
(* ChemicalPotentialGrid.get_grid on its own: any vertices, any n_points *)

\* positions of the vertices tried: a 3 x 3 lattice
Positions == {<<-GridUnit * i, -GridUnit * j>> : i \in 0..2, j \in 0..2}

\* the row of a vertex at position pt: the chemical potentials lie on one plane
VertexRow(pt) == [A |-> pt[1], B |-> pt[2], C |-> -2 * GridUnit - pt[1] - pt[2]]

\* the vertex tables tried: every three distinct positions in every order (collinear
\* ones included), and every four distinct positions in one order
VertexSets ==
    { <<VertexRow(a), VertexRow(b), VertexRow(c)>> :
        <<a, b, c>> \in {t \in Positions \X Positions \X Positions :
                            t[1] # t[2] /\ t[1] # t[3] /\ t[2] # t[3]} }
    \cup { [i \in 1..4 |-> VertexRow(SetToSeq(S)[i])] :
             S \in {T \in SUBSET Positions : Cardinality(T) = 4} }

InitGrid ==
    /\ lib = FALSE
    /\ seed = CHOOSE h \in LabelOrders : TRUE
    /\ solver = NoSolver
    /\ pc = "idle"
    /\ \E vertices \in VertexSets, n_points \in 1..MaxPoints :
          call = [op |-> "get_grid", vertices |-> vertices, n_points |-> n_points]
    /\ tasks = <<>>
    /\ started = 0
    /\ inflight = {}
    /\ slots = <<>>
    /\ all_data = <<>>
    /\ ret = NoRet
    /\ err = NoErr
    /\ warns = {}
    /\ log = <<>>
    /\ search = NoSearch

GetGrid ==
    /\ pc = "idle"
    /\ call.op = "get_grid"
    /\ Return(call, get_grid(call.vertices, PyInt(call.n_points)), {})
    /\ UNCHANGED <<lib, seed, solver, search>>

SpecGrid == InitGrid /\ [][GetGrid]_vars

-----------------------------------------------------------------------------
(* Properties *)

Returned(op) == pc = "returned" /\ call.op = op

ScanOps == {"scan_temperature", "scan_chempots", "scan_dopant_concentration", "interpolate_chempots"}

EquilibriumUnits == {"_solve_and_append_chempots", "_add_effective_dopant_concentration_and_solve"}

PseudoUnits ==
    {"_solve_and_append_chempots_pseudo", "_add_effective_dopant_concentration_and_solve_pseudo"}

\* every row of table has value v in column c
AllRows(table, c, v) == \A k \in DOMAIN table : c \in DOMAIN table[k] /\ table[k][c] = v

\* all rows of table agree on column c
OneValue(table, c) ==
    \A k \in DOMAIN table : c \in DOMAIN table[k] /\ table[k][c] = table[1][c]

\* C1: a solver constructed with backend=None while py-sc-fermi is unavailable (and with
\* chemical potentials at hand) is constructed without error or warning and has
\* backend "doped".
C1_DefaultFallsBackToDoped ==
    (/\ Returned("__init__")
     /\ IsNone(call.backend)
     /\ ~lib
     /\ ~IsNone(call.chempots) \/ ~IsNone(call.dt_chempots))
    => (/\ err = NoErr
        /\ warns = {}
        /\ solver.constructed
        /\ solver.backend = "doped")

\* C2: constructing with a backend string that contains "fermi" while py-sc-fermi is
\* unavailable raises an ImportError whose message names the doped backend, and no
\* solver is produced.
C2_ExplicitFermiUnavailableFails ==
    (/\ Returned("__init__")
     /\ ~IsNone(call.backend)
     /\ Contains(Chars_fermi, Lower(call.backend.v))
     /\ ~lib)
    => (/\ err.type = "ImportError"
        /\ "doped" \in Range(err.msg)
        /\ solver = NoSolver)

C2_Witness ==
    /\ Returned("__init__")
    /\ call.backend = Str(<<"P", "y", "-", "S", "C", "-", "F", "e", "r", "m", "i">>)
    /\ ~lib
    /\ err.type = "ImportError"
    /\ ~solver.constructed

\* C3: a backend-specific private operation called on a solver of the other backend
\* raises a RuntimeError naming the required and the actual backend, calls no
\* collaborator, and leaves the solver as it was.
C3_WrongBackendFailsAtOnce ==
    [][ (/\ pc = "idle"
         /\ pc' = "returned"
         /\ call'.op \in PrivateOps
         /\ solver.backend # (IF call'.op = "_get_fermi_level_and_carriers"
                              THEN "doped" ELSE "py-sc-fermi"))
        => (/\ err'.type = "RuntimeError"
            /\ (IF call'.op = "_get_fermi_level_and_carriers"
                THEN "doped" ELSE "py-sc-fermi") \in Range(err'.msg)
            /\ solver.backend \in Range(err'.msg)
            /\ log' = <<>>
            /\ solver' = solver) ]_vars

C3_Witness ==
    /\ Returned("_generate_annealed_defect_system")
    /\ solver.backend = "doped"
    /\ err.type = "RuntimeError"
    /\ log = <<>>
    /\ search = NoSearch

\* C4: in every scan entry point, exactly one of annealing / quenching temperature gives
\* a ValueError with no solve performed; both given makes every unit of a well-formed
\* scan a pseudo-equilibrium solve, neither makes every unit an equilibrium solve.
C4_TemperaturePairSelectsSolver ==
    (pc = "returned" /\ call.op \in ScanOps)
    => LET anneal == ~IsNone(call.annealing)
           quench == ~IsNone(call.quenching)
           \* the chemical potentials are given directly and the scanned axes are
           \* non-empty lists or reals
           wellformed ==
              CASE call.op = "scan_temperature" ->
                      /\ ~IsNone(call.chempots)
                      /\ call.annealing.t # "int"
                      /\ call.temperature_range.t # "int"
                      /\ call.temperature_range # PyList(<<>>)
                [] call.op = "scan_chempots" -> call.chempots # <<>>
                [] call.op = "scan_dopant_concentration" ->
                      /\ ~IsNone(call.chempots)
                      /\ call.effective_dopant_concentration_range.t # "int"
                [] call.op = "interpolate_chempots" ->
                      ~IsNone(call.chempots) /\ call.n_points >= 2
       IN  /\ (anneal # quench) => (err.type = "ValueError" /\ log = <<>>)
           /\ (anneal /\ quench /\ wellformed) =>
                 (tasks # <<>> /\ \A i \in DOMAIN tasks : tasks[i].fn \in PseudoUnits)
           /\ (~anneal /\ ~quench /\ wellformed) =>
                 (tasks # <<>> /\ \A i \in DOMAIN tasks : tasks[i].fn \in EquilibriumUnits)

\* C5: for n_points = N >= 2 the interpolation returns N sets, the first equal to the
\* start point and the last equal to the end point exactly, set i holding
\* start + (end - start) * i / (N - 1) for each element.
C5_InterpolationHitsEndpoints ==
    (Returned("_get_interpolated_chempots") /\ call.n_points >= 2)
    => (/\ err = NoErr
        /\ Len(ret) = call.n_points
        /\ ret[1] = call.chem_pot_start
        /\ ret[call.n_points] = call.chem_pot_end
        /\ \A i \in 1..call.n_points : \A key \in DOMAIN call.chem_pot_start :
              ret[i][key] = FAdd(call.chem_pot_start[key],
                                 FDiv(FMul(FSub(call.chem_pot_end[key], call.chem_pot_start[key]),
                                           i - 1), call.n_points - 1)))

\* C6: scan_chempots with a list of k chemical-potential sets, and both or neither of
\* the annealing / quenching temperatures, runs one solve per set and returns the k
\* row-groups in order, each carrying its set's chemical potentials as columns.
C6_ScanChempotsOneSolvePerSet ==
    (Returned("scan_chempots") /\ (IsNone(call.annealing) <=> IsNone(call.quenching)))
    => (/\ err = NoErr
        /\ DOMAIN slots = 1..Len(call.chempots)
        /\ Len(all_data) = Len(call.chempots)
        /\ \A i \in DOMAIN all_data : \A el \in DOMAIN call.chempots[i] :
              AllRows(all_data[i], el, call.chempots[i][el])
        /\ ret = Flatten(all_data))

\* C7: a completed scan_temperature has one row-group per scanned combination, in
\* iteration order: one per temperature (equilibrium), or one per pair of the product
\* of the quenching and annealing ranges (pseudo-equilibrium); every row of a group
\* carries the group's temperature(s) and the group's one Fermi level, electron and
\* hole value; the returned table is the groups concatenated.
C7_ScanTemperatureRowGroups ==
    (Returned("scan_temperature") /\ err = NoErr)
    => LET pseudo == ~IsNone(call.annealing)
           combos == IF pseudo
                     THEN Product(WrapFloat(call.quenching).items, WrapFloat(call.annealing).items)
                     ELSE [i \in DOMAIN WrapFloat(call.temperature_range).items |->
                              <<WrapFloat(call.temperature_range).items[i]>>]
       IN  /\ Len(all_data) = Len(combos)
           /\ \A i \in DOMAIN all_data :
                 /\ all_data[i] # <<>>
                 /\ IF pseudo
                    THEN /\ AllRows(all_data[i], "Quenched Temperature", combos[i][1])
                         /\ AllRows(all_data[i], "Annealing Temperature", combos[i][2])
                    ELSE AllRows(all_data[i], "Temperature", combos[i][1])
                 /\ OneValue(all_data[i], "Fermi Level")
                 /\ OneValue(all_data[i], "Electrons (cm^-3)")
                 /\ OneValue(all_data[i], "Holes (cm^-3)")
           /\ ret = Flatten(all_data)

C7_Witness ==
    /\ Returned("scan_temperature")
    /\ err = NoErr
    /\ call.quenching = PyList(<<300, 600>>)
    /\ call.annealing = PyList(<<1000, 600>>)
    /\ Len(all_data) = 4
    /\ all_data[2][1]["Quenched Temperature"] = 300
    /\ all_data[2][1]["Annealing Temperature"] = 600

\* C8: whatever the process count and the order in which the units complete, a
\* completed scan returns the row-groups in input order, each equal to what the unit
\* gives when run sequentially in the calling interpreter.
C8_ResultEqualsSequentialScan ==
    (pc = "returned" /\ call.op \in ScanOps /\ err = NoErr)
    => (/\ Len(all_data) = Len(tasks)
        /\ \A i \in DOMAIN all_data : all_data[i] = RunUnit(solver, tasks[i], seed).val
        /\ ret = Flatten(all_data))

\* C9 as stated: every row of the row-group of a scanned dopant concentration c carries
\* c itself, with its sign, in the "Dopant (cm^-3)" column.
C9_DopantColumnCarriesSignedValue ==
    (Returned("scan_dopant_concentration") /\ err = NoErr)
    => LET cs == WrapFloat(call.effective_dopant_concentration_range).items
       IN  /\ Len(all_data) = Len(cs)
           /\ \A i \in DOMAIN all_data : AllRows(all_data[i], "Dopant (cm^-3)", cs[i])

\* C9: every row of the row-group of a scanned dopant concentration c carries the
\* magnitude |c| in the "Dopant (cm^-3)" column, so c and -c give the same value.
C9_DopantColumnCarriesMagnitude ==
    (Returned("scan_dopant_concentration") /\ err = NoErr)
    => LET cs == WrapFloat(call.effective_dopant_concentration_range).items
       IN  /\ Len(all_data) = Len(cs)
           /\ \A i \in DOMAIN all_data :
                 all_data[i] # <<>> /\ AllRows(all_data[i], "Dopant (cm^-3)", Abs(cs[i]))

C9_Witness ==
    /\ Returned("scan_dopant_concentration")
    /\ err = NoErr
    /\ call.effective_dopant_concentration_range = PyList(<<2, -2>>)
    /\ Len(all_data) = 2
    /\ all_data[1][1]["Dopant (cm^-3)"] = 2
    /\ all_data[2][1]["Dopant (cm^-3)"] = 2

\* C10: a scalar given for a scanned axis of scan_temperature or
\* scan_dopant_concentration, integer or real, is scanned as one combination.
C10_ScalarAxisIsOneCombination ==
    LET scalar(x) == x.t \in {"int", "float"}
    IN  /\ (/\ Returned("scan_temperature")
            /\ ~IsNone(call.chempots)
            /\ IsNone(call.annealing) /\ IsNone(call.quenching)
            /\ scalar(call.temperature_range))
           => (err.type # "TypeError" /\ Len(tasks) = 1)
        /\ (/\ Returned("scan_temperature")
            /\ ~IsNone(call.chempots)
            /\ scalar(call.annealing) /\ scalar(call.quenching))
           => (err.type # "TypeError" /\ Len(tasks) = 1)
        /\ (/\ Returned("scan_dopant_concentration")
            /\ ~IsNone(call.chempots)
            /\ IsNone(call.annealing) <=> IsNone(call.quenching)
            /\ scalar(call.effective_dopant_concentration_range))
           => (err.type # "TypeError" /\ Len(tasks) = 1)

\* the value of column c in the row of table whose index is label (0 if there is none)
Cell(table, label, c) ==
    IF \E i \in DOMAIN table : table[i]["Defect"] = label
    THEN table[CHOOSE i \in DOMAIN table : table[i]["Defect"] = label][c]
    ELSE 0

\* C11: a table returned by equilibrium_solve or pseudo_equilibrium_solve, under either
\* backend and with or without a dopant, has exactly one row per defect species label
\* and no row for the Fermi energy, the carriers or the Dopant pseudo-species.
C11_OneRowPerDefectLabel ==
    ((Returned("equilibrium_solve") \/ Returned("pseudo_equilibrium_solve")) /\ err = NoErr)
    => (/\ Len(ret) = Cardinality(LabelSet)
        /\ {ret[i]["Defect"] : i \in DOMAIN ret} = LabelSet)

PositionsOf(table) == {<<table[i].A, table[i].B>> : i \in DOMAIN table}

\* pt is in the convex hull of the points pts: on the inner side of every line through
\* two of the points that has all the points on one side
WithinHull(pt, pts) ==
    \A a \in pts, b \in pts :
        (a # b /\ \A v \in pts : Orient(a, b, v) >= 0) => Orient(a, b, pt) >= 0

NonCollinear(pts) == \E a \in pts, b \in pts, c \in pts : Orient(a, b, c) # 0

\* C13: for vertices of which three are not collinear and any n_points, get_grid
\* returns a table every row of which lies within or on the convex hull of the
\* vertices, and which holds every vertex with its own dependent value.
C13_GridWithinHullWithVertices ==
    (Returned("get_grid") /\ NonCollinear(PositionsOf(call.vertices)))
    => (/\ err = NoErr
        /\ \A i \in DOMAIN ret :
              WithinHull(<<ret[i].A, ret[i].B>>, PositionsOf(call.vertices))
        /\ Range(call.vertices) \subseteq Range(ret))

C13_Witness ==
    /\ Returned("get_grid")
    /\ err = NoErr
    /\ call.n_points = 3
    /\ Len(call.vertices) = 4
    /\ Len(ret) > Len(call.vertices) + 2
    /\ Len(ret) < 9 + Len(call.vertices)
    /\ \E i \in DOMAIN ret : ret[i] \notin Range(call.vertices)

-----------------------------------------------------------------------------
(* min_max_X *)

SearchReturned == pc = "returned" /\ err = NoErr /\ call.op = "min_max_X"

SamePoint(r, q) == r.A = q.A /\ r.B = q.B /\ r.C = q.C

\* C14 as stated: when min_max_X terminates it returns the full result table of the
\* last iteration, the rows of every grid point solved in it
C14_ReturnsFullTable ==
    SearchReturned => ret = search.results_df

\* C14, amended: when min_max_X terminates it returns only the rows of the last
\* iteration's table that are at the optimum: for a column target the rows whose
\* target equals the optimal value, for a defect target all the rows of one grid
\* point at which a row has the optimal concentration
C14_ReturnsRowsAtOptimum ==
    SearchReturned =>
        LET tbl  == search.results_df
            best == search.values[Len(search.values)].v
            IsBest(r) == r[call.target.col] = best
        IN  IF "col" \in DOMAIN call.target
            THEN ret = SelectSeq(tbl, IsBest)
            ELSE \E i \in DOMAIN tbl :
                    LET AtPoint(r) == SamePoint(r, tbl[i])
                    IN  /\ tbl[i]["Concentration (cm^-3)"] = best
                        /\ ret = SelectSeq(tbl, AtPoint)

\* a search that converged after more than one iteration and left rows out
C14_Witness ==
    /\ SearchReturned
    /\ search.iteration >= 2
    /\ Len(ret) < Len(search.results_df)
    /\ \E i \in DOMAIN search.results_df : ~SamePoint(search.results_df[i], ret[1])

\* C15: min_max_X accepts min_or_max = "minimize" and "maximize" (it does not fail on
\* account of the value) and raises a ValueError for any other value of min_or_max
C15_MinimizeMaximizeOrValueError ==
    (pc = "returned" /\ call.op = "min_max_X") =>
        IF call.min_or_max \in {"minimize", "maximize"}
        THEN err.type # "UnboundLocalError"
        ELSE err.type = "ValueError"

\* the vertices of the grid the search starts from
OriginalVertices == from_chempots(call.chempots)

\* every row of the table is a point of the convex hull of the original vertices
InOriginalHull(table) ==
    \A i \in DOMAIN table :
        /\ WithinHull(<<table[i].A, table[i].B>>, PositionsOf(OriginalVertices))
        /\ table[i].A + table[i].B + table[i].C
              = OriginalVertices[1].A + OriginalVertices[1].B + OriginalVertices[1].C

\* C16: in every iteration of min_max_X every vertex of the grid being solved, and
\* every grid point solved, lies within the convex hull of the starting grid's vertices
C16_SearchStaysInOriginalHull ==
    (call.op = "min_max_X" /\ search.active) =>
        /\ InOriginalHull(search.starting_grid)
        /\ InOriginalHull(search.solved)
        /\ InOriginalHull(search.results_df)

\* a third grid has been solved, on vertices none of which is an original vertex,
\* and it has points that are not its vertices
C16_Witness ==
    /\ call.op = "min_max_X"
    /\ search.active
    /\ search.iteration >= 3
    /\ Range(search.solved) \cap Range(OriginalVertices) = {}
    /\ \E i \in DOMAIN search.results_df :
          <<search.results_df[i].A, search.results_df[i].B>> \notin PositionsOf(search.solved)

\* C17: the per-iteration optimal target values of min_max_X are monotonically
\* non-worsening: non-increasing from one iteration to the next for a min search,
\* non-decreasing for a max search
C17_OptimaNeverWorsen ==
    (call.op = "min_max_X" /\ search.active /\ call.min_or_max \in {"min", "max"}) =>
        \A i \in 1..(Len(search.values) - 1) :
            (search.values[i] # NaN /\ search.values[i + 1] # NaN) =>
                IF call.min_or_max = "min"
                THEN search.values[i + 1].v <= search.values[i].v
                ELSE search.values[i + 1].v >= search.values[i].v

-----------------------------------------------------------------------------
(* multiplicity scaling, missing chemical potentials, limits *)

\* C18: under the py-sc-fermi backend a volume ratio that is not near an integer never
\* causes a hard failure: construction warns and stores multiplicity_scaling =
\* round(ratio), and no later solve raises on account of it, for every positive ratio
C18_NonIntegerRatioNeverFails ==
    /\ (Returned("__init__") /\ err = NoErr /\ solver.backend = "py-sc-fermi"
            /\ ~IsCloseToInteger(call.ratio))
        => (/\ NonIntegerRatioWarning \in warns
            /\ solver.multiplicity_scaling = PyRound100(call.ratio))
    /\ (pc = "returned" /\ solver.constructed /\ solver.backend = "py-sc-fermi"
            /\ call.op \in {"equilibrium_solve", "pseudo_equilibrium_solve",
                             "scan_temperature", "scan_dopant_concentration"})
        => err.type # "ZeroDivisionError"

\* the collaborator calls that solve for a Fermi level or for concentrations
SolverCalls ==
    { "get_equilibrium_fermi_level", "get_equilibrium_concentrations",
      "get_quenched_fermi_level_and_concentrations", "concentration_dict" }

NoSolveLogged == \A i \in DOMAIN log : log[i].op \notin SolverCalls

\* the call that has returned had no chemical potentials to resolve: none given to the
\* constructor nor held by the thermodynamics object; neither chempots nor limit(s)
\* given to a scan or to the interpolation; no elemental references under py-sc-fermi
ChempotsUnresolvable ==
    \/ /\ Returned("__init__")
       /\ SelectBackend(call.backend, lib).err = NoErr
       /\ IsNone(call.chempots) /\ IsNone(call.dt_chempots)
    \/ /\ (Returned("scan_temperature") \/ Returned("scan_dopant_concentration"))
       /\ IsNone(call.chempots) /\ IsNone(call.limit)
    \/ /\ Returned("interpolate_chempots")
       /\ IsNone(call.chempots) /\ IsNone(call.limits)
    \/ /\ (Returned("equilibrium_solve") \/ Returned("pseudo_equilibrium_solve"))
       /\ solver.backend = "py-sc-fermi"
       /\ IsNone(solver.chempots.elemental_refs)

\* C19: whenever chemical potentials cannot be resolved the call fails with a
\* ValueError before any solve is performed
C19_MissingChempotsIsValueError ==
    ChempotsUnresolvable => (err.type = "ValueError" /\ NoSolveLogged)

\* C20: scan_temperature and scan_dopant_concentration called with chempots = None
\* and a limit that is a key of the chemical-potential limits dictionary solve with
\* that limit's chemical-potential set
C20_LimitKeySelectsItsSet ==
    (/\ call.op \in {"scan_temperature", "scan_dopant_concentration"}
     /\ IsNone(call.chempots)
     /\ ~IsNone(call.limit)
     /\ call.limit.v \in DOMAIN solver.chempots.limits_wrt_el_refs)
    => (/\ err.type # "StopIteration"
        /\ \A i \in DOMAIN tasks :
              tasks[i].chempots = solver.chempots.limits_wrt_el_refs[call.limit.v])

-----------------------------------------------------------------------------
(* min_max_X: the grids of successive iterations, and convergence *)

\* the table next holds the midpoints between the rows of the table current and some
\* solved point
MidpointsOf(next, current, results_df) ==
    \E r \in DOMAIN results_df :
        \A i \in DOMAIN current :
            \A c \in {"A", "B", "C"} : 2 * next[i][c] = current[i][c] + results_df[r][c]

\* C21: at every iteration of min_max_X that does not terminate, the vertices of the
\* next grid are the midpoints between the vertices of the grid solved in that
\* iteration and the located optimal point, so that the extent halves every time
C21_NextVerticesHalveSolvedGrid ==
    (call.op = "min_max_X" /\ search.active /\ pc = "searching" /\ search.iteration >= 1) =>
        MidpointsOf(search.starting_grid, search.solved, search.results_df)

\* |cur - prev| / |prev| < tolerance, for a previous value other than zero
RelativeChangeBelow(prev, cur, tolerance) ==
    /\ prev # NaN /\ cur # NaN
    /\ prev.v # 0
    /\ Abs(cur.v - prev.v) * tolerance[2] < tolerance[1] * Abs(prev.v)

\* C22: min_max_X never terminates after its first iteration, and terminates at the
\* first iteration k >= 2 at which |v_k - v_(k-1)| / |v_(k-1)| < tolerance; at every
\* earlier iteration it continues
C22_TerminatesAtFirstSmallChange ==
    (call.op = "min_max_X" /\ search.active /\ err = NoErr) =>
        LET n == Len(search.values)
        IN  /\ pc = "returned" =>
                (/\ n >= 2
                 /\ RelativeChangeBelow(search.values[n - 1], search.values[n], call.tolerance))
            /\ \A k \in 2..n :
                  RelativeChangeBelow(search.values[k - 1], search.values[k], call.tolerance)
                      => (k = n /\ pc = "returned")
            /\ (pc = "searching" /\ n >= 1) =>
                  MidpointsOf(search.starting_grid, OriginalVertices, search.results_df)

\* a search that went on after a second iteration that changed the optimum by more
\* than the tolerance, and terminated at the third
C22_Witness ==
    /\ SearchReturned
    /\ Len(search.values) = 3
    /\ search.values[1] # search.values[2]
    /\ RelativeChangeBelow(search.values[2], search.values[3], call.tolerance)

\* C28: if two consecutive iterations of min_max_X produce the same optimal target
\* value, the search terminates at the second of them, for every such value, 0 included
C28_EqualOptimaTerminate ==
    (call.op = "min_max_X" /\ search.active /\ err = NoErr) =>
        \A k \in 2..Len(search.values) :
            (search.values[k] # NaN /\ search.values[k] = search.values[k - 1])
                => (k = Len(search.values) /\ pc = "returned")

\* the point of the solved table that the iteration went on from, or returned the rows of
LocatedAt(r) ==
    /\ pc = "returned" => SamePoint(ret[1], r)
    /\ pc = "searching" =>
          \A i \in DOMAIN OriginalVertices :
              \A c \in {"A", "B", "C"} : 2 * search.starting_grid[i][c] = OriginalVertices[i][c] + r[c]

\* C29: when the target of min_max_X is a defect label, the optimal point located in an
\* iteration is a grid point at which that defect's own concentration attains the
\* minimum/maximum over the grid, never the point of a row of a different defect that
\* happens to have the same concentration value
C29_DefectTargetLocatesOwnOptimum ==
    (/\ call.op = "min_max_X" /\ search.active /\ err = NoErr
     /\ "label" \in DOMAIN call.target
     /\ call.min_or_max \in {"min", "max"}
     /\ search.iteration >= 1)
    => \E i \in DOMAIN search.results_df :
          /\ search.results_df[i]["Defect"] = call.target.label
          /\ search.results_df[i]["Concentration (cm^-3)"] = search.values[Len(search.values)].v
          /\ LocatedAt(search.results_df[i])

-----------------------------------------------------------------------------
(* get_grid: the points on the boundary of the hull *)

\* pt is in the hull of pts and on none of its edges
StrictlyInside(pt, pts) ==
    \A a \in pts, b \in pts :
        (a # b /\ \A v \in pts : Orient(a, b, v) >= 0) => Orient(a, b, pt) > 0

\* the rows of the returned grid that come from the lattice: all but the vertices,
\* which are stacked under them
LatticeRows == SubSeq(ret, 1, Len(ret) - Len(call.vertices))

\* the lattice of the bounding box of the vertices, n_points values along each axis
BoxLattice ==
    LET pts == PositionsOf(call.vertices)
        xs  == {p[1] : p \in pts}
        ys  == {p[2] : p \in pts}
        Least(S) == CHOOSE x \in S : \A z \in S : x <= z
        Most(S)  == CHOOSE x \in S : \A z \in S : x >= z
    IN  Range(mgrid(Least(xs), Most(xs), call.n_points))
            \X Range(mgrid(Least(ys), Most(ys), call.n_points))

GridReturned == Returned("get_grid") /\ err = NoErr /\ NonCollinear(PositionsOf(call.vertices))

\* C25 as stated: get_grid keeps only lattice points strictly inside the convex hull of
\* the vertices, so each input vertex position occurs exactly once in the returned grid
C25_OnlyStrictlyInsideKept ==
    GridReturned =>
        /\ \A p \in PositionsOf(LatticeRows) : StrictlyInside(p, PositionsOf(call.vertices))
        /\ \A v \in PositionsOf(call.vertices) :
              Cardinality({i \in DOMAIN ret : <<ret[i].A, ret[i].B>> = v}) = 1

\* C25, amended: get_grid keeps the lattice points inside the convex hull of the vertices
\* and those on its boundary, so a lattice point that coincides with a vertex position
\* is kept and that position occurs twice in the returned grid
C25_BoundaryPointsKept ==
    GridReturned =>
        /\ PositionsOf(LatticeRows) = {p \in BoxLattice : WithinHull(p, PositionsOf(call.vertices))}
        /\ \A i \in DOMAIN call.vertices :
              <<call.vertices[i].A, call.vertices[i].B>> \in BoxLattice
                  => Cardinality({k \in DOMAIN ret : <<ret[k].A, ret[k].B>>
                                      = <<call.vertices[i].A, call.vertices[i].B>>}) >= 2

\* a grid with a lattice point on an edge of the hull that is no vertex, one at a vertex
\* position, and one strictly inside
C25_Witness ==
    /\ GridReturned
    /\ \E p \in PositionsOf(LatticeRows) :
          /\ ~StrictlyInside(p, PositionsOf(call.vertices))
          /\ p \notin PositionsOf(call.vertices)
    /\ \E p \in PositionsOf(LatticeRows) : p \in PositionsOf(call.vertices)
    /\ \E p \in PositionsOf(LatticeRows) : StrictlyInside(p, PositionsOf(call.vertices))

-----------------------------------------------------------------------------
(* the dopant species, the interpolation length, the annealed system *)

\* C26: _generate_dopant_for_py_sc_fermi raises a ValueError when the effective dopant
\* concentration is zero; for a non-zero concentration c it returns a one-site species
\* named "Dopant" with a single charge state of charge +1 if c > 0 and -1 if c < 0,
\* with fixed concentration |c| * volume / 1e24
C26_DopantSpeciesOrValueError ==
    (/\ Returned("_generate_dopant_for_py_sc_fermi")
     /\ solver.backend = "py-sc-fermi"
     /\ ~IsNone(call.dopant))
    => IF call.dopant.v = 0
       THEN err.type = "ValueError"
       ELSE LET q == IF call.dopant.v > 0 THEN 1 ELSE -1
            IN  /\ err = NoErr
                /\ ret.name = Name_Dopant
                /\ ret.nsites = 1
                /\ DOMAIN ret.charge_states = {q}
                /\ ret.charge_states[q].charge = q
                /\ ret.charge_states[q].fixed_concentration
                      = {ToInternal(Abs(call.dopant.v), solver.volume)}

\* C27: for every n_points >= 1, _get_interpolated_chempots returns a list whose length
\* is exactly n_points (for n_points = 1 a list of one set)
C27_InterpolationHasNPoints ==
    (Returned("_get_interpolated_chempots") /\ call.n_points >= 1)
    => (err = NoErr /\ Len(ret) = call.n_points)

AnnealedReturned ==
    /\ Returned("_generate_annealed_defect_system")
    /\ err = NoErr
    /\ solver.backend = "py-sc-fermi"

NoConstraint(sp) ==
    /\ sp.fixed_concentration = {}
    /\ \A q \in DOMAIN sp.charge_states : sp.charge_states[q].fixed_concentration = {}

\* the species of a defect system other than the dopant, whose concentration is fixed
\* from the start
OwnSpecies(ds) == {i \in DOMAIN ds.defect_species : ds.defect_species[i].name # Name_Dopant}

\* C23 as stated: after _generate_annealed_defect_system returns, the defect system that
\* was solved at the annealing temperature still has the annealing temperature and
\* carries no fixed-concentration constraint; only the returned deep copy has the
\* constraints and the quench temperature
C23_SolvedSystemLeftUnconstrained ==
    AnnealedReturned =>
        /\ ret.defect_system.temperature = call.temperature
        /\ \A i \in OwnSpecies(ret.defect_system) : NoConstraint(ret.defect_system.defect_species[i])
        /\ ret.target_system.temperature = 300

\* C23, amended: the constraints are imposed on the defect system that was solved at the
\* annealing temperature itself, which is deep-copied afterwards: the solved system keeps
\* the annealing temperature and carries the same constraints as the returned copy, and
\* only the copy gets the quench temperature
C23_ConstraintsFixedBeforeCopy ==
    AnnealedReturned =>
        /\ ret.defect_system.temperature = call.temperature
        /\ ret.target_system.temperature = 300
        /\ ret.target_system.defect_species = ret.defect_system.defect_species
        /\ \A i \in OwnSpecies(ret.defect_system) :
              ret.defect_system.defect_species[i].name \notin call.free_defects
                  => ~NoConstraint(ret.defect_system.defect_species[i])

\* a call with different annealing and quench temperatures that froze a species
C23_Witness ==
    /\ AnnealedReturned
    /\ call.temperature = 1000
    /\ ret.target_system.temperature # ret.defect_system.temperature
    /\ \E i \in OwnSpecies(ret.defect_system) : ~NoConstraint(ret.defect_system.defect_species[i])

\* the annealing-temperature concentrations of the call that returned: totals per species
\* and per charge state
AnnealingSystem == _generate_defect_system(solver, call.temperature, call.chempots, call.dopant, seed).val
AnnealingTotals == concentration_dict(AnnealingSystem, FALSE)
AnnealingDecomposed == concentration_dict(AnnealingSystem, TRUE)

\* the constraints that the freezing rule leaves on species sp of the system before freezing
FrozenAsRuled(sp, before) ==
    IF sp.name \in call.free_defects
    THEN sp = before
    ELSE IF call.fix_charge_states
    THEN /\ sp.fixed_concentration = before.fixed_concentration
         /\ \A q \in DOMAIN sp.charge_states :
               sp.charge_states[q].fixed_concentration
                   = {DictVal(AnnealingDecomposed, sp.name)[q] * solver.volume}
    ELSE /\ sp.fixed_concentration = {DictVal(AnnealingTotals, sp.name) * solver.volume}
         /\ sp.charge_states = before.charge_states

\* C24: a species is exempt from freezing iff its exact name is in free_defects; every
\* other species gets one species-level constraint equal to its annealing-temperature
\* total times the volume (fix_charge_states = False), or one constraint per charge state
\* equal to that charge state's annealing-temperature concentration times the volume and
\* no species-level constraint (fix_charge_states = True); exempt species get none
C24_FreezingRule ==
    AnnealedReturned =>
        \A i \in DOMAIN ret.target_system.defect_species :
            FrozenAsRuled(ret.target_system.defect_species[i], AnnealingSystem.defect_species[i])

-----------------------------------------------------------------------------
(* pseudo_equilibrium_solve under the doped backend *)

DopedPseudoReturned ==
    /\ Returned("pseudo_equilibrium_solve")
    /\ solver.backend = "doped"

\* C30: under the doped backend pseudo_equilibrium_solve never reads fix_charge_states
\* and free_defects: for the same chemical potentials, temperatures and dopant
\* concentration the outcome is the same for every value of the two options, and no
\* error or warning reports that they are unsupported
C30_DopedIgnoresFreezingOptions ==
    DopedPseudoReturned =>
        /\ err = NoErr
        /\ warns = {}
        /\ \A fix_charge_states \in BOOLEAN, free_defects \in FreeDefectLists :
              \E o \in {pseudo_equilibrium_solve(solver, call.chempots, call.quenched_temperature,
                                                 call.annealing_temperature, call.dopant,
                                                 fix_charge_states, free_defects, seed)} :
                  /\ o.err = err
                  /\ o.val = ret
                  /\ o.log = log

\* a doped-backend call that asked for both options and got a table
C30_Witness ==
    /\ DopedPseudoReturned
    /\ call.fix_charge_states
    /\ call.free_defects = {<<"v", "A">>}
    /\ err = NoErr
    /\ Len(ret) > 0

====
